---------------------------- MODULE Spec2Model ----------------------------
(***************************************************************************)
(* Model of the csv-converter-ai field resolution and enhancement          *)
(* pipeline: ColumnMapper, DataCleaner (size extraction), BatchAIEnhancer, *)
(* AIEnhancer and GoHubTransformer.                                        *)
(*                                                                         *)
(* Strings the code inspects character by character (headers, field names) *)
(* are sequences of one-character strings.  JS objects are functions from  *)
(* key to value, so that the spread {...a, ...b} is function override.     *)
(*                                                                         *)
(* Three specifications share the variables:                               *)
(*   Spec            one enhancer instance (BatchAIEnhancer or AIEnhancer) *)
(*   SpecMapper      ColumnMapper.mapColumns                               *)
(*   SpecTransformer GoHubTransformer.transformToGoHub                     *)
(***************************************************************************)
EXTENDS Integers, Sequences, FiniteSets, TLC

VARIABLES
    engine,       \* which enhancer class was constructed
    apiKey,       \* this.apiKey is truthy
    tokenUsage,   \* this.tokenUsage = {total, calls}
    cache,        \* this.cache
    rows,         \* cleanedRows, modified in place by enhanceBatch
    stats,        \* the stats object of enhanceBatch
    fieldGroups,  \* result of _groupSimilarFields
    needs,        \* the local needsAI array of _processFieldGroup
    sizeRows,     \* sizeRowsWithData of _processSizeAnalysis
    pc,           \* position of the enhancer's caller
    gi,           \* index of the current category group
    ci,           \* offset i of the current chunk / item
    inflight,     \* the request _callOpenAI is awaiting, if any
    callLog,      \* history: every dispatch with its reconciled results
    mapper,       \* ColumnMapper: inputs and result of mapColumns
    transformer,  \* GoHubTransformer: inputs and result of transformToGoHub
    cleaner,      \* DataCleaner: inputs and result of cleanBatch / cleanField
    detector,     \* ProductTypeDetector: inputs and result of detect
    reader        \* header normalization: input and results

enhancerVars == <<engine, apiKey, tokenUsage, cache, rows, stats, fieldGroups,
                  needs, sizeRows, pc, gi, ci, inflight, callLog>>
vars == <<engine, apiKey, tokenUsage, cache, rows, stats, fieldGroups,
          needs, sizeRows, pc, gi, ci, inflight, callLog, mapper, transformer,
          cleaner, detector, reader>>

-----------------------------------------------------------------------------
(* Bounds of the model *)

MaxRows == 3

-----------------------------------------------------------------------------
(* JavaScript helpers *)

Range(s) == {s[i] : i \in 1..Len(s)}

\* the least element of a non-empty set of numbers
Least(S) == CHOOSE i \in S : \A j \in S : i <= j

Min(a, b) == IF a < b THEN a ELSE b

\* Math.round(a / b) for a >= 0, b > 0
Round(a, b) == (2 * a + b) \div (2 * b)

UpperChars == <<"A","B","C","D","E","F","G","H","I","J","K","L","M",
                "N","O","P","Q","R","S","T","U","V","W","X","Y","Z">>
LowerChars == <<"a","b","c","d","e","f","g","h","i","j","k","l","m",
                "n","o","p","q","r","s","t","u","v","w","x","y","z">>

ToLowerChar(c) ==
    IF \E i \in 1..26 : UpperChars[i] = c
    THEN LowerChars[CHOOSE i \in 1..26 : UpperChars[i] = c]
    ELSE c

\* String.prototype.toLowerCase
toLowerCase(s) == [i \in 1..Len(s) |-> ToLowerChar(s[i])]

\* String.prototype.includes
includes(s, t) == \E i \in 0..(Len(s) - Len(t)) : SubSeq(s, i + 1, i + Len(t)) = t

\* {...a, ...b}
Spread(a, b) == [k \in DOMAIN a \cup DOMAIN b |-> IF k \in DOMAIN b THEN b[k] ELSE a[k]]

\* obj[key] is truthy, for an object whose property values are positive
\* numbers, 0 or non-empty strings
Truthy(obj, key) == key \in DOMAIN obj /\ obj[key] # 0

\* A row object: its keys in insertion order and its fields.
SetField(row, name, field) ==
    [keys |-> IF name \in Range(row.keys) THEN row.keys ELSE Append(row.keys, name),
     f    |-> [k \in DOMAIN row.f \cup {name} |-> IF k = name THEN field ELSE row.f[k]]]

HasField(row, name) == name \in DOMAIN row.f

\* the characters of the field names, headers and string literals the code
\* compares
Chars(w) ==
    CASE w = "DIMENSION" -> <<"D","I","M","E","N","S","I","O","N">>
      [] w = "SIZE" -> <<"S","I","Z","E">>
      [] w = "bridge" -> <<"b","r","i","d","g","e">>
      [] w = "bridgeWidth" -> <<"b","r","i","d","g","e","W","i","d","t","h">>
      [] w = "category" -> <<"c","a","t","e","g","o","r","y">>
      [] w = "characteristic" -> <<"c","h","a","r","a","c","t","e","r","i","s","t","i","c">>
      [] w = "code" -> <<"c","o","d","e">>
      [] w = "color" -> <<"c","o","l","o","r">>
      [] w = "colorDescription" -> <<"c","o","l","o","r","D","e","s","c","r","i","p","t","i","o","n">>
      [] w = "colour" -> <<"c","o","l","o","u","r">>
      [] w = "composition" -> <<"c","o","m","p","o","s","i","t","i","o","n">>
      [] w = "desc" -> <<"d","e","s","c">>
      [] w = "description" -> <<"d","e","s","c","r","i","p","t","i","o","n">>
      [] w = "dimension" -> <<"d","i","m","e","n","s","i","o","n">>
      [] w = "ean" -> <<"e","a","n">>
      [] w = "feature" -> <<"f","e","a","t","u","r","e">>
      [] w = "frame" -> <<"f","r","a","m","e">>
      [] w = "frameMaterial" -> <<"f","r","a","m","e","M","a","t","e","r","i","a","l">>
      [] w = "frameShape" -> <<"f","r","a","m","e","S","h","a","p","e">>
      [] w = "frameType" -> <<"f","r","a","m","e","T","y","p","e">>
      [] w = "framecolor" -> <<"f","r","a","m","e","c","o","l","o","r">>
      [] w = "framecolordesc" -> <<"f","r","a","m","e","c","o","l","o","r","d","e","s","c">>
      [] w = "height" -> <<"h","e","i","g","h","t">>
      [] w = "hingeType" -> <<"h","i","n","g","e","T","y","p","e">>
      [] w = "length" -> <<"l","e","n","g","t","h">>
      [] w = "lens" -> <<"l","e","n","s">>
      [] w = "lensWidth" -> <<"l","e","n","s","W","i","d","t","h">>
      [] w = "lenscolor" -> <<"l","e","n","s","c","o","l","o","r">>
      [] w = "link" -> <<"l","i","n","k">>
      [] w = "material" -> <<"m","a","t","e","r","i","a","l">>
      [] w = "model" -> <<"m","o","d","e","l">>
      [] w = "name" -> <<"n","a","m","e">>
      [] w = "polarized" -> <<"p","o","l","a","r","i","z","e","d">>
      [] w = "price" -> <<"p","r","i","c","e">>
      [] w = "product" -> <<"p","r","o","d","u","c","t">>
      [] w = "protection" -> <<"p","r","o","t","e","c","t","i","o","n">>
      [] w = "pvp" -> <<"p","v","p">>
      [] w = "quantity" -> <<"q","u","a","n","t","i","t","y">>
      [] w = "reference" -> <<"r","e","f","e","r","e","n","c","e">>
      [] w = "rimType" -> <<"r","i","m","T","y","p","e">>
      [] w = "size" -> <<"s","i","z","e">>
      [] w = "sku" -> <<"s","k","u">>
      [] w = "temple" -> <<"t","e","m","p","l","e">>
      [] w = "templeLength" -> <<"t","e","m","p","l","e","L","e","n","g","t","h">>
      [] w = "total" -> <<"t","o","t","a","l">>
      [] w = "type" -> <<"t","y","p","e">>
      [] w = "upc" -> <<"u","p","c">>
      [] w = "uv" -> <<"u","v">>
      [] w = "width" -> <<"w","i","d","t","h">>

-----------------------------------------------------------------------------
(* Raw cell values.                                                        *)
(* A raw string is abstracted to the features the cleaner reads:           *)
(*   src    which text it is                                               *)
(*   len    its length after trim()                                        *)
(*   ws     characters removed by replace(/\s+/g, ' ').trim()              *)
(*   space  whether the cleaned text contains ' '                          *)
(*   tokens its "Label: digits" parts in order (NoDigits: the label is not *)
(*          followed by digits)                                            *)
(*   marks  the literals of the domain rules it contains: the color         *)
(*          patterns, compared in lower case, and '100%Acetate'              *)

NoDigits == 0 - 1

RawText(src, len, ws, space, tokens) ==
    [t |-> "text", src |-> src, pre |-> FALSE, len |-> len, ws |-> ws,
     space |-> space, tokens |-> tokens, marks |-> {}]

WithMarks(text, marks) == [text EXCEPT !.marks = marks]

Tok(label, digits) == [label |-> label, digits |-> digits]

\* case folding of the labels, for the /i regular expressions
LabelLower(label) ==
    CASE label = "Width:"  -> "width:"
      [] label = "Height:" -> "height:"
      [] label = "Bridge:" -> "bridge:"
      [] label = "Arms:"   -> "arms:"
      [] OTHER             -> label

\* text.includes('Width:'): case-sensitive
IncludesLabel(text, label) == \E i \in 1..Len(text.tokens) : text.tokens[i].label = label

\* text.match(/Label:\s*(\d+)/i): the first place where the label is followed
\* by digits; 0 when there is no match
MatchIndex(text, lowerLabel) ==
    LET hits == {i \in 1..Len(text.tokens) :
                    /\ LabelLower(text.tokens[i].label) = lowerLabel
                    /\ text.tokens[i].digits # NoDigits}
    IN IF hits = {} THEN 0 ELSE CHOOSE i \in hits : \A j \in hits : i <= j

\* the cleaned text after replace(/\s+/g, ' ').trim()
Cleaned(text) == [text EXCEPT !.len = text.len - text.ws, !.ws = 0]

\* the size branch of DataCleaner._extractIfObvious; fieldName is lowercased
\* by the caller.  NoExtract stands for the null result.
NoExtract == [found |-> FALSE]

_extractIfObvious(fieldName, text) ==
    LET isSizeField == \/ includes(fieldName, Chars("size"))
                       \/ includes(fieldName, Chars("lensWidth"))
                       \/ includes(fieldName, Chars("bridgeWidth"))
                       \/ includes(fieldName, Chars("templeLength"))
        w == MatchIndex(text, "width:")
        h == MatchIndex(text, "height:")
        b == MatchIndex(text, "bridge:")
        a == MatchIndex(text, "arms:")
        present == (IF w > 0 THEN {"lensWidth"} ELSE {})
                   \cup (IF h > 0 THEN {"lensHeight"} ELSE {})
                   \cup (IF b > 0 THEN {"bridgeWidth"} ELSE {})
                   \cup (IF a > 0 THEN {"templeLength"} ELSE {})
        extracted == [k \in present |->
                        CASE k = "lensWidth"    -> text.tokens[w].digits
                          [] k = "lensHeight"   -> text.tokens[h].digits
                          [] k = "bridgeWidth"  -> text.tokens[b].digits
                          [] k = "templeLength" -> text.tokens[a].digits]
    IN IF isSizeField /\ IncludesLabel(text, "Width:") /\ present # {}
       THEN [found |-> TRUE,
             value |-> [t |-> "dims", obj |-> extracted],
             confidence |-> 85,
             method |-> "Extracted dimensions"]
       ELSE NoExtract

\* DataCleaner._shouldUseAI(fieldName, text)
_shouldUseAI(fieldName, text) ==
    IF includes(fieldName, Chars("frame")) /\ includes(fieldName, Chars("color")) THEN TRUE
    ELSE IF includes(fieldName, Chars("description")) /\ text.len > 100 THEN TRUE
    ELSE IF includes(fieldName, Chars("size")) /\ text.len > 100 THEN TRUE
    ELSE IF includes(fieldName, Chars("name")) /\ text.space THEN FALSE
    ELSE IF includes(fieldName, Chars("characteristic")) /\ text.len > 50 THEN FALSE
    ELSE IF includes(fieldName, Chars("link")) THEN FALSE
    ELSE IF includes(fieldName, Chars("code")) THEN FALSE
    ELSE IF includes(fieldName, Chars("ean")) THEN FALSE
    ELSE IF includes(fieldName, Chars("reference")) THEN FALSE
    ELSE IF includes(fieldName, Chars("price")) THEN FALSE
    ELSE IF includes(fieldName, Chars("pvp")) THEN FALSE
    ELSE IF includes(fieldName, Chars("quantity")) THEN FALSE
    ELSE IF includes(fieldName, Chars("total")) THEN FALSE
    ELSE text.len > 80

\* DataCleaner.cleanField(fieldName, rawValue) for a non-empty string
cleanField(fieldName, rawValue) ==
    LET fieldLower == toLowerCase(fieldName)
        extracted  == _extractIfObvious(fieldLower, rawValue)
        cleaned    == Cleaned(rawValue)
        confidence == IF cleaned.len # rawValue.len THEN 65 ELSE 60
        needsAI    == _shouldUseAI(fieldLower, cleaned)
    IN IF extracted.found
       THEN [value |-> extracted.value, confidence |-> extracted.confidence,
             needsAI |-> FALSE, cleaning |-> <<extracted.method>>]
       ELSE [value |-> cleaned,
             confidence |-> IF needsAI THEN Min(confidence, 70) ELSE confidence,
             needsAI |-> needsAI,
             cleaning |-> IF cleaned.len # rawValue.len
                          THEN <<"Normalized spaces">> ELSE <<>>]

\* Object.entries(colorPatterns) of _applyOceanGlassesRules
colorPatterns ==
    << [pattern |-> "shiny black", baseColor |-> "Black", description |-> "Shiny Black"],
       [pattern |-> "matte black", baseColor |-> "Black", description |-> "Matte Black"],
       [pattern |-> "demy brown", baseColor |-> "Brown", description |-> "Demy Brown"],
       [pattern |-> "black and brown", baseColor |-> "Brown", description |-> "Black and Brown"],
       [pattern |-> "clear", baseColor |-> "Clear", description |-> "Clear"],
       [pattern |-> "transparent", baseColor |-> "Clear", description |-> "Transparent"] >>

\* a short literal the rules return as the new value
Literal(str, len) == RawText(str, len, 0, FALSE, <<>>)

NoRule == [found |-> FALSE]

\* DataCleaner._applyOceanGlassesRules(fieldName, value)
_applyOceanGlassesRules(fieldName, value) ==
    LET fieldLower == toLowerCase(fieldName)
        hits == {i \in 1..Len(colorPatterns) : colorPatterns[i].pattern \in value.marks}
        first == colorPatterns[Least(hits)]
    IN IF value.t # "text" \/ value.len = 0 THEN NoRule
       ELSE IF includes(fieldLower, Chars("color")) /\ hits # {}
       THEN [found |-> TRUE,
             fields |-> [value |-> Literal(first.baseColor, 5),
                         confidence |-> 95,
                         colorDescription |-> first.description]]
       ELSE IF /\ \/ includes(fieldLower, Chars("composition"))
                  \/ includes(fieldLower, Chars("material"))
               /\ "100%Acetate" \in value.marks
       THEN [found |-> TRUE,
             fields |-> [value |-> Literal("Acetate", 7), confidence |-> 95]]
       ELSE NoRule

\* DataCleaner._applyIntelligentRules(fieldName, cleanResult)
_applyIntelligentRules(fieldName, cleanResult) ==
    LET oceanPattern == _applyOceanGlassesRules(fieldName, cleanResult.value)
    IN IF ~cleanResult.needsAI THEN NoRule
       ELSE IF oceanPattern.found
       THEN [found |-> TRUE,
             result |-> Spread(Spread(cleanResult, oceanPattern.fields),
                               [enhanced |-> TRUE, needsAI |-> FALSE,
                                source |-> "ocean-rule"])]
       ELSE NoRule

\* what cleanBatch stores for one field: ruledResult || cleanResult
FinalResult(fieldName, rawValue) ==
    LET cleanResult == cleanField(fieldName, rawValue)
        ruledResult == _applyIntelligentRules(fieldName, cleanResult)
    IN IF ruledResult.found THEN ruledResult.result ELSE cleanResult

-----------------------------------------------------------------------------
(* Sample input of the enhancer: raw rows as the reader yields them,       *)
(* cleaned by cleanField and re-keyed to the mapped field key, which is     *)
(* what cleanBatch hands to enhanceBatch.                                   *)

T_ref   == RawText("REF-001", 7, 0, FALSE, <<>>)
T_color == RawText("Gold Havana", 11, 0, TRUE, <<>>)
T_lens  == RawText("lens colour notes", 90, 0, TRUE, <<>>)
T_desc  == RawText("long description", 150, 2, TRUE, <<>>)
S_full  == RawText("Width: 52 Bridge: 18 Arms: 140", 30, 0, TRUE,
                   <<Tok("Width:", 52), Tok("Bridge:", 18), Tok("Arms:", 140)>>)
S_wh    == RawText("Width: 52 Height: 40", 20, 0, TRUE,
                   <<Tok("Width:", 52), Tok("Height:", 40)>>)
S_bridge == RawText("Width: n/a Bridge: 18", 21, 0, TRUE,
                   <<Tok("Width:", NoDigits), Tok("Bridge:", 18)>>)

Cell(header, key, raw) == [header |-> header, key |-> key, raw |-> raw]

RawRowKinds ==
    { <<Cell(Chars("framecolor"), Chars("color"), T_color),
        Cell(Chars("framecolordesc"), Chars("colorDescription"), T_color),
        Cell(Chars("lenscolor"), Chars("lenscolor"), T_lens)>>,
      <<Cell(Chars("reference"), Chars("sku"), T_ref), Cell(Chars("description"), Chars("description"), T_desc)>>,
      <<Cell(Chars("reference"), Chars("sku"), T_ref),
        Cell(Chars("type"), Chars("frameType"), RawText("Rimless", 7, 0, FALSE, <<>>)),
        Cell(Chars("size"), Chars("size"), S_full)>>,
      <<Cell(Chars("size"), Chars("size"), S_bridge)>>,
      <<Cell(Chars("size"), Chars("size"), S_wh), Cell(Chars("description"), Chars("description"), T_desc)>> }

\* the keys of a cleaned row in insertion order: a key written twice keeps
\* its first place
RECURSIVE FirstKeys(_, _)
FirstKeys(raw, i) ==
    IF i > Len(raw) THEN <<>>
    ELSE IF \E j \in 1..(i - 1) : raw[j].key = raw[i].key THEN FirstKeys(raw, i + 1)
    ELSE <<raw[i].key>> \o FirstKeys(raw, i + 1)

\* cleanedRow[targetFieldName] = finalResult for every field of the row: a
\* key written twice holds the last result
CleanRow(raw) ==
    [keys |-> FirstKeys(raw, 1),
     f    |-> [k \in {raw[i].key : i \in 1..Len(raw)} |->
                 LET last == CHOOSE i \in 1..Len(raw) :
                                /\ raw[i].key = k
                                /\ \A j \in 1..Len(raw) : raw[j].key = k => j <= i
                     c == raw[last]
                 IN FinalResult(c.header, c.raw)]]

CleanedInputs ==
    UNION { {[i \in 1..n |-> CleanRow(r[i])] : r \in [1..n -> RawRowKinds]} : n \in 0..MaxRows }

-----------------------------------------------------------------------------
(* The enhancement service, seen from the engine.                          *)
(* A reply is abstracted to what the parsers read:                         *)
(*   k      array: the content parses to a JSON array of len elements      *)
(*          json_other: it parses to another JSON value                    *)
(*          text: it is not JSON                                           *)
(*          no_choices: the body has no choices[0].message.content         *)
(*          http_error: response.ok is false                               *)
(*          network_error: fetch rejects                                   *)
(*   elem   what the array's elements are (obj, sizeobj, str, null)        *)
(*   usage  usage.total_tokens, 0 when the service reports none            *)
(*   call   which dispatch it answers                                      *)

Resp(k, len, elem, usage) == [k |-> k, len |-> len, elem |-> elem, usage |-> usage, call |-> 0]

ServiceResponses(N, obj) ==
    {Resp("array", L, obj, 320) : L \in {0, 1, N - 1, N, N + 1} \cap Nat}
    \cup {Resp("array", N, "str", 320), Resp("array", N, "null", 320),
          Resp("array", N, obj, 0)}
    \cup {Resp(k, 0, "none", 320) :
            k \in {"json_other", "text", "no_choices", "http_error", "network_error"}}

\* BatchAIEnhancer._callOpenAI without a key: content '["Simulated result"]'
SimulatedResponse == Resp("array", 1, "str", 50)

\* the object the service puts in an array, with abbreviated and full keys
ServiceObject ==
    [sm |-> "S", summary |-> "Summary", gn |-> "Unisex", bc |-> "Black",
     frameType |-> "full-rim", frameShape |-> "round"]

ServiceSizeObject == [ft |-> "s", fs |-> "rnd", rt |-> "s", ht |-> "spr"]

\* element i of the parsed array
Element(response, i) ==
    [kind |-> response.elem, call |-> response.call, idx |-> i,
     obj |-> CASE response.elem = "obj"     -> ServiceObject
               [] response.elem = "sizeobj" -> ServiceSizeObject
               [] OTHER                     -> [k \in {} |-> ""]]

-----------------------------------------------------------------------------
(* BatchAIEnhancer *)

_getFieldType(fieldName) ==
    LET fieldLower == toLowerCase(fieldName)
        has(t) == includes(fieldLower, t)
    IN IF has(Chars("color")) \/ has(Chars("colour")) THEN "color"
       ELSE IF has(Chars("description")) \/ has(Chars("desc")) THEN "description"
       ELSE IF has(Chars("characteristic")) \/ has(Chars("feature")) \/ has(Chars("polarized"))
               \/ has(Chars("uv")) \/ has(Chars("protection")) \/ has(Chars("category"))
            THEN "characteristics"
       ELSE IF has(Chars("name")) \/ has(Chars("model")) \/ has(Chars("product")) \/ has(Chars("sku")) THEN "name"
       ELSE IF has(Chars("size")) \/ has(Chars("dimension")) \/ has(Chars("lens")) \/ has(Chars("bridge"))
               \/ has(Chars("temple")) \/ has(Chars("width")) \/ has(Chars("height")) \/ has(Chars("length"))
            THEN "size_analysis"
       ELSE "other"

\* the items one row contributes, in the order of its keys; rowIndex is
\* 1-based here
RowItems(row, rowIndex) ==
    LET all == [i \in 1..Len(row.keys) |->
                  [rowIndex |-> rowIndex, fieldName |-> row.keys[i],
                   cleanResult |-> row.f[row.keys[i]],
                   value |-> row.f[row.keys[i]].value]]
    IN SelectSeq(all, LAMBDA it : it.cleanResult.needsAI)

RECURSIVE AllItems(_, _)
AllItems(cleanedRows, i) ==
    IF i > Len(cleanedRows) THEN <<>>
    ELSE RowItems(cleanedRows[i], i) \o AllItems(cleanedRows, i + 1)

\* the keys of the groups object, in insertion order
RECURSIVE TypeOrder(_, _)
TypeOrder(items, seen) ==
    IF items = <<>> THEN <<>>
    ELSE LET ty == _getFieldType(Head(items).fieldName)
         IN IF ty \in seen THEN TypeOrder(Tail(items), seen)
            ELSE <<ty>> \o TypeOrder(Tail(items), seen \cup {ty})

_groupSimilarFields(cleanedRows) ==
    LET items == AllItems(cleanedRows, 1)
        order == TypeOrder(items, {})
    IN [g \in 1..Len(order) |->
          [fieldType |-> order[g],
           items |-> SelectSeq(items, LAMBDA it : _getFieldType(it.fieldName) = order[g])]]

\* `${value}`.substring(0, k) and `Enhanced ${value}`.substring(0, k) of a text
Substring(v, k) == [v EXCEPT !.len = Min(v.len, k)]
EnhancedPrefix(v, k) == [v EXCEPT !.pre = TRUE, !.len = Min(v.len + 9, k)]

\* _expandAbbreviatedResult: later assignments win, so the full name wins
\* over the abbreviation
ExpandTable ==
    << <<"bc", "baseColor">>, <<"baseColor", "baseColor">>,
       <<"cd", "colorDescription">>, <<"colorDescription", "colorDescription">>,
       <<"sm", "summary">>, <<"summary", "summary">>,
       <<"gn", "gender">>, <<"gender", "gender">>,
       <<"md", "model">>, <<"model", "model">>,
       <<"cl", "collection">>, <<"collection", "collection">>,
       <<"frameType", "frameType">>, <<"frameShape", "frameShape">>,
       <<"protection", "protection">>, <<"category", "category">>,
       <<"productName", "productName">>, <<"modelNumber", "modelNumber">>,
       <<"brand", "brand">>, <<"rimType", "rimType">>, <<"hingeType", "hingeType">>,
       <<"cleanedValue", "value">>, <<"confidence", "confidence">> >>

_expandAbbreviatedResult(result) ==
    IF result.kind = "null" THEN [threw |-> TRUE]
    ELSE IF result.kind = "str"
    THEN [threw |-> FALSE, value |-> [t |-> "aistr", call |-> result.call, idx |-> result.idx]]
    ELSE LET o == result.obj
             hit(d) == {i \in 1..Len(ExpandTable) :
                          /\ ExpandTable[i][2] = d
                          /\ ExpandTable[i][1] \in DOMAIN o
                          /\ o[ExpandTable[i][1]] # ""}
             keys == {d \in {ExpandTable[i][2] : i \in 1..Len(ExpandTable)} : hit(d) # {}}
             expanded == [d \in keys |->
                            o[ExpandTable[CHOOSE i \in hit(d) : \A j \in hit(d) : j <= i][1]]]
         IN [threw |-> FALSE,
             value |-> [t |-> "ai", call |-> result.call, idx |-> result.idx,
                        obj |-> IF keys # {} THEN expanded ELSE o]]

\* the parsed elements _parseBatchResponse expands: the first min(len, N)
ExpandedOk(response, n) ==
    \A i \in 1..n : ~_expandAbbreviatedResult(Element(response, i)).threw

FinalFallback(items) ==
    [i \in 1..Len(items) |->
       [value |-> Substring(items[i].value, 100), confidence |-> 70,
        source |-> "batch-parse-error", tokensUsed |-> 30]]

\* _parseBatchResponse without the padding of a short array
_parseBatchResponse_noPad(response, items) ==
    LET n == IF response.k = "array" THEN Min(response.len, Len(items)) ELSE Len(items)
    IN [threw |-> FALSE, results |-> SubSeq(FinalFallback(items), 1, n)]

_parseBatchResponse(response, items) ==
    LET N == Len(items)
        L == response.len
        totalTokens == IF response.usage # 0 THEN response.usage ELSE 200
        val(i) == _expandAbbreviatedResult(Element(response, i)).value
        ai(i, conf, src, per) ==
            [value |-> val(i), confidence |-> conf, source |-> src,
             tokensUsed |-> Round(totalTokens, per), totalTokens |-> totalTokens]
    IN IF response.k = "no_choices"
       THEN \* TypeError in the try block and again in the catch block's log
            [threw |-> TRUE, results |-> <<>>]
       ELSE IF response.k = "array" /\ ExpandedOk(response, Min(L, N))
       THEN [threw |-> FALSE,
             results |->
               IF L = N THEN [i \in 1..N |-> ai(i, 85, "batch-ai", N)]
               ELSE IF L > N THEN [i \in 1..N |-> ai(i, 80, "batch-ai-truncated", N)]
               ELSE [i \in 1..N |->
                       IF i <= L THEN ai(i, 80, "batch-ai-partial", L)
                       ELSE [value |-> Substring(items[i].value, 100),
                             confidence |-> 60, source |-> "batch-ai-fallback",
                             tokensUsed |-> 30]]]
       ELSE [threw |-> FALSE, results |-> FinalFallback(items)]

\* _callOpenAI counting the call before it looks at the key
_callOpenAI_countFirst(tu, key) ==
    [tokenUsage |-> [tu EXCEPT !.calls = @ + 1], fetch |-> key]

\* _callOpenAI up to its await of fetch, and from the reply on
_callOpenAI_begin(tu, key) ==
    IF ~key THEN [tokenUsage |-> tu, fetch |-> FALSE]
    ELSE [tokenUsage |-> [tu EXCEPT !.calls = @ + 1], fetch |-> TRUE]

\* _callOpenAI making a second attempt when the first one fails
_callOpenAI_end_retry(tu, key, resp) ==
    IF ~key
    THEN [tokenUsage |-> tu, threw |-> FALSE,
          data |-> [SimulatedResponse EXCEPT !.call = resp.call]]
    ELSE IF resp.k \in {"network_error", "http_error"}
    THEN [tokenUsage |-> [tu EXCEPT !.calls = @ + 1], threw |-> TRUE, data |-> resp]
    ELSE [tokenUsage |-> [tu EXCEPT !.total = @ + resp.usage],
          threw |-> FALSE, data |-> resp]

_callOpenAI_end(tu, key, resp) ==
    IF ~key
    THEN [tokenUsage |-> tu, threw |-> FALSE,
          data |-> [SimulatedResponse EXCEPT !.call = resp.call]]
    ELSE IF resp.k \in {"network_error", "http_error"}
    THEN [tokenUsage |-> tu, threw |-> TRUE, data |-> resp]
    ELSE [tokenUsage |-> [tu EXCEPT !.total = @ + resp.usage],
          threw |-> FALSE, data |-> resp]

BatchFallback(items) ==
    [i \in 1..Len(items) |->
       [value |-> EnhancedPrefix(items[i].value, 50), confidence |-> 75,
        source |-> "batch-fallback", tokensUsed |-> 50]]

\* _processBatch without its catch block
_processBatch_noCatch(fieldType, items, call) ==
    IF call.threw THEN [threw |-> TRUE, results |-> <<>>]
    ELSE _parseBatchResponse(call.data, items)

\* _processBatch, given what _callOpenAI did
_processBatch(fieldType, items, call) ==
    IF call.threw THEN [threw |-> FALSE, results |-> BatchFallback(items)]
    ELSE LET parsed == _parseBatchResponse(call.data, items)
         IN IF parsed.threw THEN [threw |-> FALSE, results |-> BatchFallback(items)]
            ELSE parsed

\* obj[key] is truthy, for an object whose property values are strings
TruthyStr(obj, key) == key \in DOMAIN obj /\ obj[key] # ""

DerivedField(value, source) ==
    [value |-> [t |-> "str", s |-> value], confidence |-> 85, enhanced |-> TRUE,
     source |-> source, needsAI |-> FALSE]

\* one iteration of the forEach of _applyBatchResults
MergeResult(enhancedRows, item, result) ==
    LET row == enhancedRows[item.rowIndex]
        enhancedField == row.f[item.fieldName]
        mergedResult == Spread(Spread(enhancedField, result),
                               [enhanced |-> TRUE, source |-> "batch-ai-optimized"])
        isDesc == /\ includes(toLowerCase(item.fieldName), Chars("description"))
                  /\ TruthyStr(result, "frameType")
        row1 == IF isDesc /\ ~HasField(row, Chars("frameType"))
                THEN SetField(row, Chars("frameType"),
                              DerivedField(result.frameType, "description-analysis"))
                ELSE row
        row2 == IF isDesc /\ TruthyStr(result, "frameShape") /\ ~HasField(row1, Chars("frameShape"))
                THEN SetField(row1, Chars("frameShape"),
                              DerivedField(result.frameShape, "description-analysis"))
                ELSE row1
        isColor == /\ includes(toLowerCase(item.fieldName), Chars("color"))
                   /\ TruthyStr(result, "baseColor")
        merged2 == IF isColor
                   THEN Spread(mergedResult,
                               [k \in {"baseColor", "colorDescription"} \cap DOMAIN result
                                  |-> result[k]])
                   ELSE mergedResult
    IN [enhancedRows EXCEPT ![item.rowIndex] = SetField(row2, item.fieldName, merged2)]

RECURSIVE MergeFrom(_, _, _, _)
MergeFrom(items, batchResults, enhancedRows, i) ==
    IF i > Len(batchResults) THEN enhancedRows
    ELSE MergeFrom(items, batchResults,
                   MergeResult(enhancedRows, items[i], batchResults[i]), i + 1)

BatchCost(batchResults) ==
    IF Len(batchResults) > 0 /\ "totalTokens" \in DOMAIN batchResults[1]
    THEN batchResults[1].totalTokens ELSE 200

_applyBatchResults(items, batchResults, enhancedRows, st) ==
    IF Len(batchResults) > Len(items)
    THEN \* items[index] is undefined: TypeError
         [threw |-> TRUE, rows |-> enhancedRows, stats |-> st]
    ELSE [threw |-> FALSE,
          rows  |-> MergeFrom(items, batchResults, enhancedRows, 1),
          stats |-> [st EXCEPT !.batched = @ + Len(items),
                               !.tokensUsed = @ + BatchCost(batchResults),
                               !.batchSavings = @ + (Len(items) * 100 - BatchCost(batchResults))]]

_enhanceIndividual(item) ==
    [value |-> EnhancedPrefix(item.value, 50), confidence |-> 80,
     source |-> "individual-ai", tokensUsed |-> 80]

\* the else branch of _processFieldGroup
RECURSIVE IndividualFrom(_, _, _)
IndividualFrom(needsAI, enhancedRows, i) ==
    IF i > Len(needsAI) THEN enhancedRows
    ELSE LET item == needsAI[i]
             row == enhancedRows[item.rowIndex]
             field == Spread(Spread(row.f[item.fieldName], _enhanceIndividual(item)),
                             [enhanced |-> TRUE])
         IN IndividualFrom(needsAI,
                           [enhancedRows EXCEPT ![item.rowIndex] =
                               SetField(row, item.fieldName, field)],
                           i + 1)

\* the first lines of _processFieldGroup
NeedsAI(items, enhancedRows) ==
    SelectSeq(items, LAMBDA item : enhancedRows[item.rowIndex].f[item.fieldName].needsAI)

\* a slice that takes one element more than it is asked for
Slice_oneMore(seq, i, n) == SubSeq(seq, i + 1, Min(i + n + 1, Len(seq)))

\* needsAI.slice(i, i + 8), with i counted from 0
Slice(seq, i, n) == SubSeq(seq, i + 1, Min(i + n, Len(seq)))

-----------------------------------------------------------------------------
(* The size analysis pass *)

\* row['SIZE'] || row['size'] || row['DIMENSION']; field objects are truthy
SizeFieldOf(row) ==
    IF HasField(row, Chars("SIZE")) THEN <<row.f[Chars("SIZE")]>>
    ELSE IF HasField(row, Chars("size")) THEN <<row.f[Chars("size")]>>
    ELSE IF HasField(row, Chars("DIMENSION")) THEN <<row.f[Chars("DIMENSION")]>>
    ELSE <<>>

IsObjectValue(v) == v.t \in {"dims", "ai"}

_collectSizeRows(enhancedRows) ==
    LET all == [i \in 1..Len(enhancedRows) |-> i]
        keep(rowIndex) ==
            LET sf == SizeFieldOf(enhancedRows[rowIndex])
            IN /\ sf # <<>>
               /\ IsObjectValue(sf[1].value)
               /\ LET dims == sf[1].value.obj
                  IN \/ Truthy(dims, "lensWidth") \/ Truthy(dims, "bridge")
                     \/ Truthy(dims, "temple") \/ Truthy(dims, "lensHeight")
        picked == SelectSeq(all, keep)
    IN [i \in 1..Len(picked) |->
          [rowIndex |-> picked[i],
           dimensions |-> SizeFieldOf(enhancedRows[picked[i]])[1].value.obj]]

_expandFrameType(abbr) ==
    CASE abbr = "f" -> "full-rim" [] abbr = "s" -> "semi-rimless" [] abbr = "r" -> "rimless"
      [] OTHER -> "full-rim"

_expandFrameShape(abbr) ==
    CASE abbr = "rec" -> "rectangular" [] abbr = "rnd" -> "round" [] abbr = "ov" -> "oval"
      [] abbr = "cat" -> "cat-eye" [] abbr = "av" -> "aviator" [] abbr = "sq" -> "square"
      [] abbr = "oth" -> "other" [] OTHER -> "rectangular"

_expandRimType(abbr) ==
    CASE abbr = "f" -> "full" [] abbr = "s" -> "semi" [] abbr = "r" -> "rimless"
      [] OTHER -> "full"

_expandHingeType(abbr) ==
    CASE abbr = "std" -> "standard" [] abbr = "spr" -> "spring" [] abbr = "pin" -> "pin"
      [] abbr = "scr" -> "screw" [] abbr = "oth" -> "other" [] OTHER -> "standard"

\* lensWidth / lensHeight compared with 1.8 and 1.2, in tenths
_inferFrameTypeFromDimensions(dimensions) ==
    IF Truthy(dimensions, "lensWidth") /\ Truthy(dimensions, "lensHeight")
    THEN LET w == dimensions.lensWidth
             h == dimensions.lensHeight
         IN IF 10 * w > 18 * h THEN "rectangular"
            ELSE IF 10 * w < 12 * h THEN "round"
            ELSE "full-rim"
    ELSE "full-rim"

\* property key of a parsed element; "" stands for undefined
Prop(o, key) == IF key \in DOMAIN o THEN o[key] ELSE ""

_parseSizeAnalysisResponse(response, batch) ==
    LET exact == /\ response.k = "array"
                 /\ response.len = Len(batch)
                 /\ response.elem # "null"
    IN IF exact
       THEN [i \in 1..Len(batch) |->
               LET item == Element(response, i).obj
               IN [frameType  |-> _expandFrameType(Prop(item, "ft")),
                   frameShape |-> _expandFrameShape(Prop(item, "fs")),
                   rimType    |-> _expandRimType(Prop(item, "rt")),
                   hingeType  |-> _expandHingeType(Prop(item, "ht"))]]
       ELSE [i \in 1..Len(batch) |->
               [frameType  |-> _inferFrameTypeFromDimensions(batch[i].dimensions),
                frameShape |-> "rectangular", rimType |-> "full",
                hingeType  |-> "standard"]]

SizeKeys == <<Chars("frameType"), Chars("frameShape"), Chars("rimType"), Chars("hingeType")>>

SizeValue(result, i) ==
    CASE i = 1 -> result.frameType [] i = 2 -> result.frameShape
      [] i = 3 -> result.rimType   [] i = 4 -> result.hingeType

RECURSIVE AddSizeFields(_, _, _)
AddSizeFields(row, result, i) ==
    IF i > Len(SizeKeys) THEN row
    ELSE AddSizeFields(IF SizeValue(result, i) # ""
                       THEN SetField(row, SizeKeys[i],
                                     DerivedField(SizeValue(result, i), "size-analysis-ai"))
                       ELSE row,
                       result, i + 1)

RECURSIVE SizeFrom(_, _, _, _)
SizeFrom(batch, results, enhancedRows, i) ==
    IF i > Len(results) THEN enhancedRows
    ELSE SizeFrom(batch, results,
                  [enhancedRows EXCEPT ![batch[i].rowIndex] = AddSizeFields(@, results[i], 1)],
                  i + 1)

_applySizeResults(batch, results, enhancedRows, st) ==
    [rows  |-> SizeFrom(batch, results, enhancedRows, 1),
     stats |-> [st EXCEPT !.ruled = @ + 4 * Len(results)]]

-----------------------------------------------------------------------------
(* AIEnhancer *)

T_sizeNote == RawText("Bridge 18 mm, see chart", 120, 0, TRUE, <<Tok("Bridge:", 18)>>)

\* the key of the cache Map: `${fieldName}_${String(value).substring(0, 50)}`
CacheKey(fieldName, cleanedValue) ==
    [fieldName |-> fieldName, src |-> cleanedValue.src, len |-> Min(cleanedValue.len, 50)]

\* colors.find(color => cleanedValue.toLowerCase().includes(color))
FoundColor(cleanedValue) == IF cleanedValue.src = "Matte black" THEN "black" ELSE ""

\* error is "" when the argument is omitted
_simulateResponse(fieldName, cleanedValue, error) ==
    LET fieldLower == toLowerCase(fieldName)
        isText == cleanedValue.t = "text"
        sizeHit == \E i \in 1..Len(cleanedValue.tokens) :
                      /\ LabelLower(cleanedValue.tokens[i].label)
                            \in {"width:", "bridge:", "arms:"}
                      /\ cleanedValue.tokens[i].digits # NoDigits
        sim == IF includes(fieldLower, Chars("size")) /\ isText
               THEN IF sizeHit
                    THEN [value |-> [t |-> "simdims", of |-> cleanedValue.src], confidence |-> 80]
                    ELSE [value |-> cleanedValue, confidence |-> 65]
               ELSE IF includes(fieldLower, Chars("color")) /\ isText
               THEN IF FoundColor(cleanedValue) # ""
                    THEN [value |-> [t |-> "simcolor", framecolor |-> FoundColor(cleanedValue)],
                          confidence |-> 75]
                    ELSE [value |-> cleanedValue, confidence |-> 65]
               ELSE [value |-> cleanedValue, confidence |-> 65]
    IN [value |-> sim.value, confidence |-> sim.confidence,
        source |-> IF error # "" THEN "fallback-simulation" ELSE "simulation",
        tokensUsed |-> 0, error |-> error]

\* what the service answers to AIEnhancer._callOpenAI: the shape of the
\* message content, and usage.total_tokens (0 when unreported)
FieldReplies ==
    {[k |-> k, usage |-> 120] :
        k \in {"json", "badjson", "text", "no_choices", "http_error"}}
    \cup {[k |-> "json", usage |-> 0]}

_parseAIResponse(aiResponse, fieldName) ==
    LET v == [t |-> "reply", k |-> aiResponse]
    IN CASE aiResponse = "json"    -> [value |-> v, confidence |-> 90,
                                       source |-> "openai-json", tokensUsed |-> 100]
         [] aiResponse = "badjson" -> [value |-> v, confidence |-> 60,
                                       source |-> "openai-raw", tokensUsed |-> 100]
         [] aiResponse = "number"  -> [value |-> v, confidence |-> 85,
                                       source |-> "openai-number", tokensUsed |-> 80]
         [] aiResponse = "boolean" -> [value |-> v, confidence |-> 85,
                                       source |-> "openai-boolean", tokensUsed |-> 80]
         [] OTHER                  -> [value |-> v, confidence |-> 80,
                                       source |-> "openai-text", tokensUsed |-> 90]

\* AIEnhancer.enhanceField with the _callOpenAI it awaits; c is the cache and
\* tu the token usage before the call
enhanceField(c, tu, key, fieldName, cleanedValue, reply) ==
    LET cacheKey == CacheKey(fieldName, cleanedValue)
        called == [tu EXCEPT !.calls = @ + 1]
        counted == [called EXCEPT !.total = @ + (IF reply.usage # 0 THEN reply.usage ELSE 100)]
        enhancedResult == _parseAIResponse(reply.k, fieldName)
    IN IF cacheKey \in DOMAIN c
       THEN [cache |-> c, tokenUsage |-> tu,
             result |-> Spread(c[cacheKey], [source |-> "cache"])]
       ELSE IF ~key
       THEN [cache |-> c, tokenUsage |-> tu,
             result |-> _simulateResponse(fieldName, cleanedValue, "")]
       ELSE IF reply.k \in {"http_error", "network_error"}
       THEN [cache |-> c, tokenUsage |-> called,
             result |-> _simulateResponse(fieldName, cleanedValue, "API error")]
       ELSE IF reply.k = "no_choices"
       THEN [cache |-> c, tokenUsage |-> counted,
             result |-> _simulateResponse(fieldName, cleanedValue, "TypeError")]
       ELSE [cache |-> IF enhancedResult.confidence >= 80
                       THEN [k \in DOMAIN c \cup {cacheKey} |->
                               IF k = cacheKey THEN enhancedResult ELSE c[k]]
                       ELSE c,
             tokenUsage |-> counted,
             result |-> enhancedResult]

\* the requests made of the AIEnhancer
FieldRequests ==
    { [fieldName |-> Chars("framecolor"), value |-> T_color],
      [fieldName |-> Chars("lenscolor"),  value |-> T_color],
      [fieldName |-> Chars("size"),       value |-> T_sizeNote] }

MaxFieldRequests == 3

-----------------------------------------------------------------------------
(* The enhancer as a state machine.  One engine instance is constructed,    *)
(* with or without a credential; the pipeline calls enhanceBatch on it once *)
(* with the cleaned rows, and the service answers each dispatched call.     *)

ZeroStats ==
    [totalFields |-> 0, aiEnhanced |-> 0, cached |-> 0, ruled |-> 0, batched |-> 0,
     tokensUsed |-> 0, batchSavings |-> 0]

NoInflight == [kind |-> "none", items |-> <<>>, fetch |-> FALSE]

\* a pipeline component before its call
Idle(component) ==
    CASE component = "mapper" ->
            [pc |-> "idle", inputHeaders |-> <<>>, productType |-> "FRAME"]
      [] component = "transformer" ->
            [pc |-> "idle", enhancedRows |-> <<>>, productType |-> "FRAME"]
      [] component = "cleaner" -> [pc |-> "idle", rows |-> <<>>]
      [] component = "detector" -> [pc |-> "idle", headers |-> <<>>, sampleRows |-> <<>>]
      [] component = "reader" -> [pc |-> "idle", header |-> <<>>]

\* the components a run does not exercise stay as constructed
OthersIdle(running) ==
    /\ IF "mapper" \in running THEN TRUE ELSE mapper = Idle("mapper")
    /\ IF "transformer" \in running THEN TRUE ELSE transformer = Idle("transformer")
    /\ IF "cleaner" \in running THEN TRUE ELSE cleaner = Idle("cleaner")
    /\ IF "detector" \in running THEN TRUE ELSE detector = Idle("detector")
    /\ IF "reader" \in running THEN TRUE ELSE reader = Idle("reader")

EnhancerIdle ==
    /\ tokenUsage = [total |-> 0, calls |-> 0]
    /\ cache = <<>>
    /\ stats = ZeroStats
    /\ fieldGroups = <<>>
    /\ needs = <<>>
    /\ sizeRows = <<>>
    /\ pc = "idle"
    /\ gi = 0
    /\ ci = 0
    /\ inflight = NoInflight
    /\ callLog = <<>>

Init ==
    /\ engine \in {"BatchAIEnhancer", "AIEnhancer"}
    /\ apiKey \in BOOLEAN
    /\ rows \in (IF engine = "BatchAIEnhancer" THEN CleanedInputs ELSE {<<>>})
    /\ EnhancerIdle
    /\ OthersIdle({})

\* enhanceBatch up to its first await
EnhanceBatch ==
    /\ engine = "BatchAIEnhancer"
    /\ pc = "idle"
    /\ stats' = ZeroStats
    /\ fieldGroups' = _groupSimilarFields(rows)
    /\ gi' = 1
    /\ pc' = "group"
    /\ UNCHANGED <<engine, apiKey, tokenUsage, cache, rows, needs, sizeRows, ci,
                   inflight, callLog, mapper, transformer,
                   cleaner, detector, reader>>

\* _processFieldGroup up to its first _processBatch; the individual branch
\* awaits nothing outside the engine and runs to the end of the group
ProcessFieldGroup ==
    /\ pc = "group"
    /\ gi <= Len(fieldGroups)
    /\ LET needsAI == NeedsAI(fieldGroups[gi].items, rows)
           n == Len(needsAI)
       IN /\ needs' = needsAI
          /\ ci' = 0
          /\ IF n = 0
             THEN /\ gi' = gi + 1
                  /\ UNCHANGED <<pc, rows, stats>>
             ELSE IF n >= 3
             THEN /\ pc' = "batch"
                  /\ UNCHANGED <<gi, rows, stats>>
             ELSE /\ rows' = IndividualFrom(needsAI, rows, 1)
                  /\ stats' = [stats EXCEPT !.aiEnhanced = @ + n,
                                            !.tokensUsed = @ + 80 * n]
                  /\ gi' = gi + 1
                  /\ UNCHANGED pc
    /\ UNCHANGED <<engine, apiKey, tokenUsage, cache, fieldGroups, sizeRows,
                   inflight, callLog, mapper, transformer,
                   cleaner, detector, reader>>

\* _processFieldGroup without the split of a large group
Chunk_whole == needs

\* the chunk _processFieldGroup hands to _processBatch
Chunk == IF Len(needs) > 8 THEN Slice(needs, ci, 8) ELSE needs

\* the chunk loop without its awaits: the next chunk is requested while the
\* call of the chunk before is still outstanding
DispatchBatch_noAwait ==
    /\ pc \in {"batch", "await_batch"}
    /\ pc = "await_batch" => Len(needs) > 8 /\ ci + 8 < Len(needs)
    /\ ci' = IF pc = "await_batch" THEN ci + 8 ELSE ci
    /\ LET begun == _callOpenAI_begin(tokenUsage, apiKey)
       IN /\ tokenUsage' = begun.tokenUsage
          /\ inflight' = [kind |-> "batch",
                          items |-> IF Len(needs) > 8 THEN Slice(needs, ci', 8) ELSE needs,
                          fetch |-> begun.fetch]
    /\ pc' = "await_batch"
    /\ UNCHANGED <<engine, apiKey, cache, rows, stats, fieldGroups, needs, sizeRows,
                   gi, callLog, mapper, transformer, cleaner, detector, reader>>

\* _processBatch up to the fetch of _callOpenAI
DispatchBatch ==
    /\ pc = "batch"
    /\ LET begun == _callOpenAI_begin(tokenUsage, apiKey)
       IN /\ tokenUsage' = begun.tokenUsage
          /\ inflight' = [kind |-> "batch", items |-> Chunk, fetch |-> begun.fetch]
    /\ pc' = "await_batch"
    /\ UNCHANGED <<engine, apiKey, cache, rows, stats, fieldGroups, needs, sizeRows,
                   gi, ci, callLog, mapper, transformer,
                   cleaner, detector, reader>>

RepliesTo(obj) ==
    IF inflight.fetch THEN ServiceResponses(Len(inflight.items), obj)
    ELSE {SimulatedResponse}

\* the rest of _processBatch, then _applyBatchResults and the loop step
BatchReply ==
    /\ pc = "await_batch"
    /\ \E resp \in RepliesTo("obj") :
         LET call == _callOpenAI_end(tokenUsage, apiKey,
                                     [resp EXCEPT !.call = Len(callLog) + 1])
             batch == _processBatch(fieldGroups[gi].fieldType, inflight.items, call)
             applied == _applyBatchResults(inflight.items, batch.results, rows, stats)
             raised == batch.threw \/ applied.threw
             more == Len(needs) > 8 /\ ci + 8 < Len(needs)
         IN /\ tokenUsage' = call.tokenUsage
            /\ callLog' = Append(callLog,
                                 [kind |-> "batch", group |-> gi,
                                  fieldType |-> fieldGroups[gi].fieldType,
                                  items |-> inflight.items, threw |-> call.threw,
                                  reply |-> call.data, results |-> batch.results])
            /\ IF raised
               THEN /\ pc' = "raised"
                    /\ UNCHANGED <<rows, stats, gi, ci>>
               ELSE /\ rows' = applied.rows
                    /\ stats' = applied.stats
                    /\ pc' = IF more THEN "batch" ELSE "group"
                    /\ gi' = IF more THEN gi ELSE gi + 1
                    /\ ci' = IF more THEN ci + 8 ELSE 0
    /\ inflight' = NoInflight
    /\ UNCHANGED <<engine, apiKey, cache, fieldGroups, needs, sizeRows, mapper,
                   transformer,
                   cleaner, detector, reader>>

\* _processSizeAnalysis up to the first _callOpenAI of _processSizeBatches
ProcessSizeAnalysis ==
    /\ pc = "group"
    /\ gi > Len(fieldGroups)
    /\ sizeRows' = _collectSizeRows(rows)
    /\ pc' = IF sizeRows' = <<>> THEN "done" ELSE "size"
    /\ ci' = 0
    /\ UNCHANGED <<engine, apiKey, tokenUsage, cache, rows, stats, fieldGroups, needs,
                   gi, inflight, callLog, mapper, transformer,
                   cleaner, detector, reader>>

DispatchSize ==
    /\ pc = "size"
    /\ LET begun == _callOpenAI_begin(tokenUsage, apiKey)
       IN /\ tokenUsage' = begun.tokenUsage
          /\ inflight' = [kind |-> "size", items |-> Slice(sizeRows, ci, 8),
                          fetch |-> begun.fetch]
    /\ pc' = "await_size"
    /\ UNCHANGED <<engine, apiKey, cache, rows, stats, fieldGroups, needs, sizeRows,
                   gi, ci, callLog, mapper, transformer,
                   cleaner, detector, reader>>

\* the rest of one iteration of _processSizeBatches: a thrown call is
\* caught and logged, nothing is applied
SizeReply ==
    /\ pc = "await_size"
    /\ \E resp \in RepliesTo("sizeobj") :
         LET call == _callOpenAI_end(tokenUsage, apiKey,
                                     [resp EXCEPT !.call = Len(callLog) + 1])
             results == _parseSizeAnalysisResponse(call.data, inflight.items)
             applied == _applySizeResults(inflight.items, results, rows, stats)
         IN /\ tokenUsage' = call.tokenUsage
            /\ callLog' = Append(callLog,
                                 [kind |-> "size", group |-> 0, fieldType |-> "size",
                                  items |-> inflight.items, threw |-> call.threw,
                                  reply |-> call.data,
                                  results |-> IF call.threw THEN <<>> ELSE results])
            /\ IF call.threw
               THEN UNCHANGED <<rows, stats>>
               ELSE /\ rows' = applied.rows
                    /\ stats' = [applied.stats EXCEPT !.tokensUsed =
                                    @ + (IF call.data.usage # 0 THEN call.data.usage ELSE 150)]
    /\ pc' = IF ci + 8 < Len(sizeRows) THEN "size" ELSE "done"
    /\ ci' = IF ci + 8 < Len(sizeRows) THEN ci + 8 ELSE 0
    /\ inflight' = NoInflight
    /\ UNCHANGED <<engine, apiKey, cache, fieldGroups, needs, sizeRows, gi, mapper,
                   transformer,
                   cleaner, detector, reader>>

\* one AIEnhancer.enhanceField request, with the answer of the service
EnhanceField ==
    /\ engine = "AIEnhancer"
    /\ Len(callLog) < MaxFieldRequests
    /\ \E req \in FieldRequests, reply \in FieldReplies :
         LET r == enhanceField(cache, tokenUsage, apiKey, req.fieldName, req.value, reply)
         IN /\ cache' = r.cache
            /\ tokenUsage' = r.tokenUsage
            /\ callLog' = Append(callLog,
                                 [kind |-> "field", fieldName |-> req.fieldName,
                                  value |-> req.value, callsBefore |-> tokenUsage.calls,
                                  callsAfter |-> r.tokenUsage.calls,
                                  result |-> r.result])
    /\ UNCHANGED <<engine, apiKey, rows, stats, fieldGroups, needs, sizeRows, pc, gi, ci,
                   inflight, mapper, transformer,
                   cleaner, detector, reader>>

Next ==
    \/ EnhanceBatch
    \/ ProcessFieldGroup
    \/ DispatchBatch
    \/ BatchReply
    \/ ProcessSizeAnalysis
    \/ DispatchSize
    \/ SizeReply
    \/ EnhanceField

Spec == Init /\ [][Next]_vars

-----------------------------------------------------------------------------
(* Properties of the enhancer *)

BatchEntries == {j \in 1..Len(callLog) : callLog[j].kind = "batch"}
SizeEntries == {j \in 1..Len(callLog) : callLog[j].kind = "size"}

\* the field of the rows an item names
FieldOf(item) == rows[item.rowIndex].f[item.fieldName]

\* the service did not deliver a JSON array of well-formed elements
Failed(e) == e.threw \/ e.reply.k # "array" \/ e.reply.elem = "null"

(* C2: enhanceBatch never raises to its caller whatever the service answers
   on a chunk: a chunk whose call throws or whose answer is not a usable
   array still gets one fallback result per item, and the run goes on to the
   other groups and to the size pass before it ends. *)
C2_NeverRaises ==
    /\ pc # "raised"
    /\ \A j \in BatchEntries :
         LET e == callLog[j]
         IN Failed(e) =>
              /\ Len(e.results) = Len(e.items)
              /\ \A i \in 1..Len(e.results) :
                   e.results[i].source \in {"batch-fallback", "batch-parse-error"}
    /\ pc = "done" =>
         /\ \A g \in 1..Len(fieldGroups) :
              Len(fieldGroups[g].items) >= 3 => \E j \in BatchEntries : callLog[j].group = g
         /\ sizeRows # <<>> => SizeEntries # {}

\* a chunk failed, and the run went on to a later call and ended
C2_Witness ==
    /\ pc = "done"
    /\ \E j \in BatchEntries : Failed(callLog[j]) /\ callLog[j].threw /\ j < Len(callLog)

(* C3: when the reply to a chunk of N items is reconciled and merged, there
   are exactly N results, result i lands on the row and field of item i (an
   element of the reply's array at position i when the array covers i, the
   item's own text otherwise), and no other field of any row changes. *)
C3_Reconciled ==
    [][pc = "await_batch" =>
         LET items == inflight.items
             N == Len(items)
             e == callLog'[Len(callLog')]
             covered(i) == ~Failed(e) /\ i <= e.reply.len
         IN /\ Len(e.results) = N
            /\ Len(rows') = Len(rows)
            /\ \A r \in 1..Len(rows) :
                 /\ rows'[r].keys = rows[r].keys
                 /\ \A k \in DOMAIN rows[r].f :
                      \/ \E i \in 1..N : items[i].rowIndex = r /\ items[i].fieldName = k
                      \/ rows'[r].f[k] = rows[r].f[k]
            /\ \A i \in 1..N :
                 LET field == rows'[items[i].rowIndex].f[items[i].fieldName]
                 IN /\ field.enhanced
                    /\ field.value = e.results[i].value
                    /\ IF covered(i)
                       THEN /\ field.value.t \in {"ai", "aistr"}
                            /\ field.value.idx = i
                            /\ field.value.call = Len(callLog')
                       ELSE /\ field.value.t = "text"
                            /\ field.value.src = items[i].value.src]_vars

\* a reply shorter than its chunk has been reconciled
C3_Witness ==
    \E j \in BatchEntries :
        /\ ~Failed(callLog[j])
        /\ callLog[j].reply.len < Len(callLog[j].items)
        /\ callLog[j].reply.len > 0
        /\ Len(callLog[j].results) = Len(callLog[j].items)

\* the source tag of the reconciliation branch of item i of a logged chunk
BranchTag(e, i) ==
    IF Failed(e) \/ e.reply.k # "array" THEN "batch-fallback"
    ELSE IF e.reply.len = Len(e.items) THEN "batch-ai"
    ELSE IF e.reply.len > Len(e.items) THEN "batch-ai-truncated"
    ELSE IF i <= e.reply.len THEN "batch-ai-partial"
    ELSE "batch-ai-fallback"

(* C4: after a batch reply has been merged, every field of the chunk carries
   the source tag of its reconciliation branch. *)
C4_SourceTagOfBranch ==
    \A j \in BatchEntries :
        \A i \in 1..Len(callLog[j].items) :
            FieldOf(callLog[j].items[i]).source = BranchTag(callLog[j], i)

(* C5: once a (category, value) pair has been enhanced with confidence of at
   least 80, a later request for the same pair is served from the cache: it
   is tagged 'cache' and it does not count a call. *)
C5_ServedFromCache ==
    /\ \A j \in BatchEntries : \A k \in BatchEntries :
         \A a \in 1..Len(callLog[j].items) : \A b \in 1..Len(callLog[k].items) :
            (/\ j < k
             /\ callLog[j].fieldType = callLog[k].fieldType
             /\ callLog[j].items[a].value = callLog[k].items[b].value
             /\ Len(callLog[j].results) >= a
             /\ callLog[j].results[a].confidence >= 80)
            => /\ Len(callLog[k].results) >= b
               /\ callLog[k].results[b].source = "cache"
    /\ \A j \in 1..Len(callLog) : \A k \in 1..Len(callLog) :
         (/\ j < k
          /\ callLog[j].kind = "field"
          /\ callLog[j].fieldName = callLog[k].fieldName
          /\ callLog[j].value = callLog[k].value
          /\ callLog[j].result.confidence >= 80
          /\ callLog[j].result.source \notin {"simulation", "fallback-simulation"})
         => /\ callLog[k].result.source = "cache"
            /\ callLog[k].callsAfter = callLog[k].callsBefore

(* C6: an engine constructed without a credential never counts a call. *)
C6_NoCredentialNoCalls == ~apiKey => tokenUsage.calls = 0

\* an engine without a credential has been through a batch it had to answer
\* itself, or through two field requests
C6_Witness ==
    /\ ~apiKey
    /\ \/ pc = "done" /\ BatchEntries # {} /\ SizeEntries # {}
       \/ engine = "AIEnhancer" /\ Len(callLog) >= 2

FallbackOrSimulation ==
    {"batch-ai-fallback", "batch-fallback", "fallback-simulation", "simulation"}

(* C7: without a credential, every field flagged needsAI ends enhanceBatch
   with a source tag that contains 'fallback' or 'simulation'. *)
C7_NoCredentialSources ==
    (~apiKey /\ pc = "done") =>
        \A g \in 1..Len(fieldGroups) : \A i \in 1..Len(fieldGroups[g].items) :
            LET field == FieldOf(fieldGroups[g].items[i])
            IN "source" \in DOMAIN field /\ field.source \in FallbackOrSimulation

NonBlank(row, name) ==
    /\ HasField(row, name)
    /\ row.f[name].value.t = "str"
    /\ row.f[name].value.s # ""

(* C8: when enhanceBatch has returned, every row whose size field holds a
   dimension object has non-blank frameType, frameShape, rimType and
   hingeType fields. *)
C8_DimensionRowsComplete ==
    pc = "done" =>
        \A r \in 1..Len(rows) :
            (HasField(rows[r], Chars("size")) /\ rows[r].f[Chars("size")].value.t = "dims") =>
                \A i \in 1..Len(SizeKeys) : NonBlank(rows[r], SizeKeys[i])

\* the items of the calls logged for group g from entry j on, in order
RECURSIVE LoggedItems(_, _)
LoggedItems(g, j) ==
    IF j > Len(callLog) THEN <<>>
    ELSE (IF callLog[j].kind = "batch" /\ callLog[j].group = g
          THEN callLog[j].items ELSE <<>>) \o LoggedItems(g, j + 1)

(* C9: when the groups have been processed, a group of n >= 3 members has
   been sent in ceil(n/8) calls whose chunks, each of at most 8 items, are
   consecutive and together are the group in order (one call when n <= 8); a
   group of 1 or 2 members has been sent in no batch call and each member was
   processed individually; nothing else has been dispatched as a batch. *)
C9_Chunking ==
    /\ \A j \in BatchEntries :
         /\ callLog[j].group \in 1..Len(fieldGroups)
         /\ Len(callLog[j].items) \in 1..8
         /\ Len(fieldGroups[callLog[j].group].items) >= 3
    /\ (pc \in {"size", "await_size", "done"}) =>
         \A g \in 1..Len(fieldGroups) :
            LET members == fieldGroups[g].items
                n == Len(members)
                calls == {j \in BatchEntries : callLog[j].group = g}
            IN IF n >= 3
               THEN /\ Cardinality(calls) = (n + 7) \div 8
                    /\ LoggedItems(g, 1) = members
                    /\ \A j \in calls : \A k \in calls :
                         j < k => Len(callLog[j].items) = 8
               ELSE /\ calls = {}
                    /\ \A i \in 1..n : FieldOf(members[i]).source = "individual-ai"

\* a group of more than 8 members has been processed in two calls
C9_Witness ==
    /\ pc = "done"
    /\ \E g \in 1..Len(fieldGroups) :
         /\ Len(fieldGroups[g].items) > 8
         /\ Cardinality({j \in BatchEntries : callLog[j].group = g}) = 2

\* the field an item names has received its enhancement outcome
Resolved(item) == "enhanced" \in DOMAIN FieldOf(item) /\ FieldOf(item).enhanced

\* every item of the category groups before group g is resolved
GroupsResolvedBefore(g) ==
    \A h \in 1..Len(fieldGroups) : h < g =>
        \A k \in 1..Len(fieldGroups[h].items) : Resolved(fieldGroups[h].items[k])

(* C17: at most one enhancement call is outstanding, and only while the
   engine awaits it; when a chunk is dispatched the chunks of the same group
   before it are merged onto the rows and the groups before it are fully
   resolved, no size call has been made yet; and the size pass runs only
   when every category group is resolved. *)
C17_OneCallAtATime ==
    /\ inflight # NoInflight <=> pc \in {"await_batch", "await_size"}
    /\ pc \in {"batch", "await_batch"} =>
          /\ GroupsResolvedBefore(gi)
          /\ \A k \in 1..Len(needs) : k <= ci => Resolved(needs[k])
          /\ SizeEntries = {}
          /\ pc = "await_batch" => inflight.items = Chunk
    /\ pc \in {"size", "await_size", "done"} =>
          /\ GroupsResolvedBefore(Len(fieldGroups) + 1)
          /\ pc = "await_size" => inflight.items = Slice(sizeRows, ci, 8)

C17_Witness ==
    /\ pc = "await_batch"
    /\ ci = 8
    /\ gi = 1
    /\ Len(fieldGroups) > 0
    /\ Cardinality(BatchEntries) = 1

\* the chunks dispatched so far: the answered ones and the outstanding one
Dispatched == Len(callLog) + (IF inflight # NoInflight THEN 1 ELSE 0)

(* C18: no call is retried: the call counter never exceeds the number of
   chunks dispatched, whatever the service answered, and no chunk is
   dispatched a second time. *)
C18_NoRetry ==
    engine = "BatchAIEnhancer" =>
        /\ tokenUsage.calls <= Dispatched
        /\ \A i \in 1..Len(callLog) : \A j \in 1..Len(callLog) :
              (i # j /\ callLog[i].kind = callLog[j].kind)
              => callLog[i].items # callLog[j].items

C18_Witness ==
    /\ engine = "BatchAIEnhancer"
    /\ pc = "done"
    /\ tokenUsage.calls = 2
    /\ \E j \in BatchEntries : callLog[j].threw
    /\ \E j \in SizeEntries : ~callLog[j].threw /\ callLog[j].reply.k = "text"

\* the field instances flagged needsAI; no merge clears or sets the flag of
\* a field of the input
NeedsAIFields ==
    UNION { {[rowIndex |-> r, fieldName |-> k] :
                k \in {n \in DOMAIN rows[r].f : rows[r].f[n].needsAI}} :
            r \in 1..Len(rows) }

Names(x, item) == item.rowIndex = x.rowIndex /\ item.fieldName = x.fieldName

\* where a field instance occurs in the category groups, and in the chunks
\* that were sent
PlacesInGroups(x) ==
    {<<g, k>> \in (1..Len(fieldGroups)) \X (1..(3 * MaxRows)) :
        k <= Len(fieldGroups[g].items) /\ Names(x, fieldGroups[g].items[k])}

PlacesInChunks(x) ==
    {<<j, k>> \in BatchEntries \X (1..(3 * MaxRows)) :
        k <= Len(callLog[j].items) /\ Names(x, callLog[j].items[k])}

(* C19: every field instance flagged needsAI is an item of exactly one
   category group, is sent in at most one chunk, and when enhanceBatch
   returns it has its one outcome: from exactly one chunk when its group
   has 3 members or more, from the individual step otherwise. *)
C19_EachFieldOnce ==
    (engine = "BatchAIEnhancer" /\ pc # "idle") =>
        \A x \in NeedsAIFields :
            /\ Cardinality(PlacesInGroups(x)) = 1
            /\ Cardinality(PlacesInChunks(x)) <= 1
            /\ pc = "done" =>
                  LET g == (CHOOSE p \in PlacesInGroups(x) : TRUE)[1]
                  IN /\ Resolved(x)
                     /\ IF Len(fieldGroups[g].items) >= 3
                        THEN /\ Cardinality(PlacesInChunks(x)) = 1
                             /\ \A p \in PlacesInChunks(x) : callLog[p[1]].group = g
                        ELSE /\ PlacesInChunks(x) = {}
                             /\ FieldOf(x).source = "individual-ai"

C19_Witness ==
    /\ engine = "BatchAIEnhancer"
    /\ pc = "done"
    /\ Len(fieldGroups) = 2
    /\ Cardinality(NeedsAIFields) = 7
    /\ \E x \in NeedsAIFields : PlacesInChunks(x) = {}
    /\ \E x \in NeedsAIFields : PlacesInChunks(x) # {}

\* the source tag of a field; "" when the field carries none
SourceOf(field) == IF "source" \in DOMAIN field THEN field.source ELSE ""

\* a field of the input of enhanceBatch that cleanBatch left with
\* needsAI = false: the fields enhanceBatch adds carry no cleaning list
ResolvedAtStart(r, k) ==
    /\ "cleaning" \in DOMAIN rows[r].f[k]
    /\ ~rows[r].f[k].needsAI

(* C20: no step of enhanceBatch (chunk merge with its description
   merge-back, individual step, size-analysis pass) changes the value, the
   confidence or the source of a field that had needsAI = false when
   enhanceBatch started. *)
C20_ResolvedIsTerminal ==
    [][engine = "BatchAIEnhancer" =>
         \A r \in 1..Len(rows) : \A k \in DOMAIN rows[r].f :
            ResolvedAtStart(r, k) =>
                /\ k \in DOMAIN rows'[r].f
                /\ rows'[r].f[k].value = rows[r].f[k].value
                /\ rows'[r].f[k].confidence = rows[r].f[k].confidence
                /\ SourceOf(rows'[r].f[k]) = SourceOf(rows[r].f[k])]_vars

\* the reconciled result of an item carries the service's answer for the
\* property key
ResultIncludes(result, key) ==
    /\ result.value.t = "ai"
    /\ TruthyStr(result.value.obj, key)

(* C21: when a chunk of the description group is merged and the result of
   an item includes frameType (frameShape), a row that had no such field
   gets it with needsAI = false, source 'description-analysis' and
   confidence 85, and a row that had the field keeps it as it was. *)
C21_DescriptionMergeBack ==
    [][(pc = "await_batch" /\ pc' # "raised") =>
         LET e == callLog'[Len(callLog')]
         IN e.fieldType = "description" =>
              \A i \in 1..Len(e.results) :
                 \A key \in {"frameType", "frameShape"} :
                    ResultIncludes(e.results[i], key) =>
                       LET r == e.items[i].rowIndex
                       IN IF HasField(rows[r], Chars(key))
                          THEN rows'[r].f[Chars(key)] = rows[r].f[Chars(key)]
                          ELSE /\ HasField(rows'[r], Chars(key))
                               /\ rows'[r].f[Chars(key)] =
                                     DerivedField(e.results[i].value.obj[key],
                                                  "description-analysis")]_vars

\* text v is text w cut after some number of its characters
IsPrefixOf(v, w) ==
    /\ v.t = "text" /\ ~v.pre
    /\ v.src = w.src
    /\ v.len <= w.len

(* C22: for a chunk whose call throws or whose answer is not a usable
   array, the result of every item is a prefix of the item's original value,
   with confidence at most 75 and source 'batch-fallback'. *)
C22_FallbackValues ==
    \A j \in BatchEntries :
        LET e == callLog[j]
        IN Failed(e) =>
             \A i \in 1..Len(e.results) :
                /\ IsPrefixOf(e.results[i].value, e.items[i].value)
                /\ e.results[i].confidence <= 75
                /\ e.results[i].source = "batch-fallback"

(* C30: the call counter and the token counter never decrease; a call the
   batch engine sends to the service adds exactly one to the call counter;
   and when the service answers, the token counter grows by the usage the
   answer reports, or by a positive estimate when it reports none. *)
C30_UsageAccounting ==
    [][/\ tokenUsage'.calls >= tokenUsage.calls
       /\ tokenUsage'.total >= tokenUsage.total
       /\ (engine = "BatchAIEnhancer" /\ pc \in {"batch", "size"} /\ apiKey) =>
              tokenUsage'.calls = tokenUsage.calls + 1
       /\ (/\ engine = "BatchAIEnhancer"
           /\ pc \in {"await_batch", "await_size"}
           /\ inflight.fetch) =>
              LET e == callLog'[Len(callLog')]
              IN /\ tokenUsage'.calls = tokenUsage.calls
                 /\ ~e.threw =>
                       IF e.reply.usage # 0
                       THEN tokenUsage'.total = tokenUsage.total + e.reply.usage
                       ELSE tokenUsage'.total > tokenUsage.total]_vars

-----------------------------------------------------------------------------
(* The cleaner as a state machine: cleanBatch is called once on the raw    *)
(* rows, each field already paired with the key the column mapping gives   *)
(* it.                                                                     *)

MaxCleanRows == 3

CleanerRowKinds ==
    LET T_shiny   == WithMarks(RawText("Shiny Black", 11, 0, TRUE, <<>>), {"shiny black"})
        T_acetate == WithMarks(RawText("100%Acetate, hand polished", 95, 0, TRUE, <<>>),
                               {"100%Acetate"})
        S_noWidth == RawText("Bridge: 18 Arms: 140", 20, 0, TRUE,
                             <<Tok("Bridge:", 18), Tok("Arms:", 140)>>)
    IN { <<Cell(Chars("framecolor"), Chars("color"), T_shiny)>>,
         <<Cell(Chars("color"), Chars("color"), T_shiny),
           Cell(Chars("lenscolor"), Chars("lenscolor"), T_color)>>,
         <<Cell(Chars("size"), Chars("size"), S_full)>>,
         <<Cell(Chars("size"), Chars("size"), S_noWidth)>>,
         <<Cell(Chars("size"), Chars("size"), S_wh),
           Cell(Chars("material"), Chars("frameMaterial"), T_acetate)>>,
         <<Cell(Chars("reference"), Chars("sku"), T_ref),
           Cell(Chars("description"), Chars("description"), T_desc)>>,
         <<Cell(Chars("framecolor"), Chars("color"), T_shiny),
           Cell(Chars("color"), Chars("color"), T_color)>> }

CleanerInputs == UNION { [1..n -> CleanerRowKinds] : n \in 0..MaxCleanRows }

\* the fields of all rows, in the order cleanBatch visits them
RECURSIVE RawFields(_, _)
RawFields(rawRows, i) ==
    IF i > Len(rawRows) THEN <<>> ELSE rawRows[i] \o RawFields(rawRows, i + 1)

\* DataCleaner.cleanBatch(rows, mapping)
cleanBatch(rawRows) ==
    LET fields == RawFields(rawRows, 1)
        Count(verdicts) == Cardinality({i \in 1..Len(verdicts) : verdicts[i]})
        clean(c) == cleanField(c.header, c.raw)
        ruled(c) == _applyIntelligentRules(c.header, clean(c)).found
        final(c) == FinalResult(c.header, c.raw)
    IN [cleanedRows |-> [i \in 1..Len(rawRows) |-> CleanRow(rawRows[i])],
        stats |->
          [totalFields   |-> Len(fields),
           cleanedFields |-> Len(fields),
           needsAI       |-> Count([i \in 1..Len(fields) |->
                                      ~ruled(fields[i]) /\ final(fields[i]).needsAI]),
           extracted     |-> Count([i \in 1..Len(fields) |->
                                      final(fields[i]).cleaning = <<"Extracted dimensions">>]),
           ruled         |-> Count([i \in 1..Len(fields) |-> ruled(fields[i])]),
           transformed   |-> Count([i \in 1..Len(fields) |->
                                      fields[i].key # fields[i].header])]]

InitCleaner ==
    /\ cleaner \in {[pc |-> "idle", rows |-> r] : r \in CleanerInputs}
    /\ engine = "BatchAIEnhancer"
    /\ apiKey = FALSE
    /\ rows = <<>>
    /\ EnhancerIdle
    /\ OthersIdle({"cleaner"})

CleanBatch ==
    /\ cleaner.pc = "idle"
    /\ cleaner' = [pc |-> "cleaned", rows |-> cleaner.rows,
                   result |-> cleanBatch(cleaner.rows)]
    /\ UNCHANGED <<enhancerVars, mapper, transformer, detector, reader>>

SpecCleaner == InitCleaner /\ [][CleanBatch]_vars

\* the raw fields of the cleaned rows, each with its row
CleanedCells ==
    UNION { {[row |-> r, cell |-> cleaner.rows[r][i]] : i \in 1..Len(cleaner.rows[r])} :
              r \in 1..Len(cleaner.rows) }

\* the field is an item of some enhancement group
Grouped(cleanedRows, rowIndex, fieldName) ==
    LET groups == _groupSimilarFields(cleanedRows)
    IN \E g \in 1..Len(groups) : \E k \in 1..Len(groups[g].items) :
          /\ groups[g].items[k].rowIndex = rowIndex
          /\ groups[g].items[k].fieldName = fieldName

(* C12: a field whose name contains 'color' and whose raw value is
   "Shiny Black" is cleaned to value "Black" with confidence 95 and
   needsAI = false, and it is an item of no enhancement group. *)
C12_ShinyBlackByRule ==
    cleaner.pc = "cleaned" =>
        \A x \in CleanedCells :
            (/\ includes(toLowerCase(x.cell.header), Chars("color"))
             /\ x.cell.raw.src = "Shiny Black")
            => LET f == cleaner.result.cleanedRows[x.row].f[x.cell.key]
               IN /\ f.value = Literal("Black", 5)
                  /\ f.confidence = 95
                  /\ ~f.needsAI
                  /\ ~Grouped(cleaner.result.cleanedRows, x.row, x.cell.key)

\* the dimension key of a label
LabelKey(label) ==
    CASE label = "Width:"  -> "lensWidth"
      [] label = "Height:" -> "lensHeight"
      [] label = "Bridge:" -> "bridgeWidth"
      [] label = "Arms:"   -> "templeLength"

\* the dimensions a text gives: its labels that are followed by digits
DimensionsPresent(text) ==
    {LabelKey(text.tokens[i].label) :
        i \in {j \in 1..Len(text.tokens) : text.tokens[j].digits # NoDigits}}

(* C13: a field whose name contains 'size' and whose value holds at least
   one of the labels Width:, Height:, Bridge:, Arms: is cleaned to a
   structured value with exactly the dimensions present, confidence 85 and
   needsAI = false. *)
C13_SizeDecomposition ==
    cleaner.pc = "cleaned" =>
        \A x \in CleanedCells :
            (/\ includes(toLowerCase(x.cell.header), Chars("size"))
             /\ x.cell.raw.tokens # <<>>)
            => LET f == cleanField(x.cell.header, x.cell.raw)
               IN /\ cleaner.result.cleanedRows[x.row].f[x.cell.key] = f
                  /\ f.value.t = "dims"
                  /\ DOMAIN f.value.obj = DimensionsPresent(x.cell.raw)
                  /\ \A i \in 1..Len(x.cell.raw.tokens) :
                        x.cell.raw.tokens[i].digits # NoDigits =>
                            f.value.obj[LabelKey(x.cell.raw.tokens[i].label)]
                                = x.cell.raw.tokens[i].digits
                  /\ f.confidence = 85
                  /\ ~f.needsAI

\* the ordered decision table of the AI-need decision: color-category
\* field with a value, long description-like or size-like field, the
\* allow-list, then the length of the value
AINeedTable(fieldLower, cleaned) ==
    LET has(w) == includes(fieldLower, Chars(w))
    IN IF (has("color") \/ has("colour")) /\ cleaned.len > 0 THEN TRUE
       ELSE IF (has("description") \/ has("size")) /\ cleaned.len > 100 THEN TRUE
       ELSE IF \/ has("name") /\ cleaned.space
               \/ has("characteristic") /\ cleaned.len < 50
               \/ has("link") \/ has("code") \/ has("ean") \/ has("upc")
               \/ has("reference") \/ has("price") \/ has("pvp")
               \/ has("quantity") \/ has("total")
            THEN FALSE
       ELSE cleaned.len > 80

(* C28: for every field cleanBatch cleans and cleanField does not extract,
   needsAI of cleanField is the verdict of the decision table on the
   lowercased field name and the cleaned value, and when it is true the
   confidence is at most 70. *)
C28_AINeedDecision ==
    cleaner.pc = "cleaned" =>
        \A x \in CleanedCells :
            LET fieldLower == toLowerCase(x.cell.header)
                res == cleanField(x.cell.header, x.cell.raw)
            IN ~_extractIfObvious(fieldLower, x.cell.raw).found =>
                  /\ res.needsAI = AINeedTable(fieldLower, Cleaned(x.cell.raw))
                  /\ res.needsAI => res.confidence <= 70

-----------------------------------------------------------------------------
(* ColumnMapper *)

Digits == {"0","1","2","3","4","5","6","7","8","9"}

\* the replace calls without the g flag: only the first character that is
\* neither a letter nor a digit goes
_normalizeForMatching_firstOnly(str) ==
    LET lower == toLowerCase(str)
        bad == {i \in 1..Len(lower) : lower[i] \notin Range(LowerChars) \cup Digits}
    IN IF bad = {} THEN lower
       ELSE SubSeq(lower, 1, Least(bad) - 1) \o SubSeq(lower, Least(bad) + 1, Len(lower))

\* toLowerCase, then the three replace calls: what is left is the letters
\* and the digits
_normalizeForMatching(str) ==
    SelectSeq(toLowerCase(str), LAMBDA c : c \in Range(LowerChars) \cup Digits)

MAPPING_PATTERNS ==
    <<
      [key |-> "sku", patterns |-> <<
            <<"r","e","f","e","r","e","n","c","e">>,
            <<"s","k","u">>,
            <<"r","e","f">>,
            <<"i","d">>,
            <<"p","r","o","d","u","c","t","_","i","d">>,
            <<"i","t","e","m","_","i","d">>,
            <<"c","o","d","e">>,
            <<"p","r","o","d","u","c","t","_","c","o","d","e">>,
            <<"i","t","e","m","_","c","o","d","e">>>>],
      [key |-> "brand", patterns |-> <<
            <<"b","r","a","n","d">>,
            <<"m","a","n","u","f","a","c","t","u","r","e","r">>,
            <<"s","u","p","p","l","i","e","r">>>>],
      [key |-> "description", patterns |-> <<
            <<"d","e","s","c","r","i","p","t","i","o","n">>,
            <<"t","i","t","l","e">>,
            <<"p","r","o","d","u","c","t","_","n","a","m","e">>>>],
      [key |-> "price", patterns |-> <<
            <<"p","r","i","c","e">>,
            <<"c","o","s","t">>,
            <<"g","o","h","u","b","_","p","r","i","c","e">>,
            <<"g","o","h","u","b","p","r","i","c","e">>>>],
      [key |-> "recommendedPrice", patterns |-> <<
            <<"r","e","c","o","m","m","e","n","d","e","d","_","p","r","i","c","e">>,
            <<"p","v","p">>,
            <<"r","e","t","a","i","l","_","p","r","i","c","e">>,
            <<"r","e","t","a","i","l","p","r","i","c","e">>,
            <<"m","s","r","p">>,
            <<"r","r","p">>>>],
      [key |-> "weight", patterns |-> <<
            <<"w","e","i","g","h","t">>>>],
      [key |-> "upc", patterns |-> <<
            <<"e","a","n">>,
            <<"u","p","c">>,
            <<"b","a","r","c","o","d","e">>>>],
      [key |-> "color", patterns |-> <<
            <<"f","r","a","m","e","_","c","o","l","o","r">>,
            <<"f","r","a","m","e","c","o","l","o","r">>,
            <<"c","o","l","o","r">>,
            <<"c","o","l","o","u","r">>>>],
      [key |-> "colorDescription", patterns |-> <<
            <<"c","o","l","o","r","_","d","e","s","c","r","i","p","t","i","o","n">>,
            <<"c","o","l","o","r","_","d","e","s","c">>,
            <<"f","r","a","m","e","_","c","o","l","o","r","_","d","e","s","c">>,
            <<"c","o","l","o","u","r","_","d","e","s","c","r","i","p","t","i","o","n">>>>],
      [key |-> "frameMaterial", patterns |-> <<
            <<"c","o","m","p","o","s","i","t","i","o","n">>,
            <<"c","h","a","r","a","c","t","e","r","i","s","t","i","c","s">>,
            <<"m","a","t","e","r","i","a","l">>,
            <<"f","r","a","m","e","_","m","a","t","e","r","i","a","l">>,
            <<"f","r","a","m","e","m","a","t","e","r","i","a","l">>>>],
      [key |-> "frameShape", patterns |-> <<
            <<"s","h","a","p","e">>,
            <<"f","r","a","m","e","_","s","h","a","p","e">>,
            <<"f","r","a","m","e","s","h","a","p","e">>>>],
      [key |-> "frameType", patterns |-> <<
            <<"t","y","p","e">>,
            <<"f","r","a","m","e","_","t","y","p","e">>,
            <<"f","r","a","m","e","t","y","p","e">>>>],
      [key |-> "collection", patterns |-> <<
            <<"c","o","l","l","e","c","t","i","o","n">>,
            <<"l","i","n","e">>,
            <<"s","e","r","i","e","s">>>>],
      [key |-> "manufacturerModel", patterns |-> <<
            <<"m","o","d","e","l">>,
            <<"m","o","d","e","l","_","n","a","m","e">>,
            <<"n","a","m","e">>>>],
      [key |-> "image1", patterns |-> <<
            <<"i","m","a","g","e","1">>,
            <<"i","m","a","g","e">>,
            <<"l","i","n","k">>,
            <<"l","i","n","k","s">>,
            <<"p","h","o","t","o">>,
            <<"u","r","l">>>>],
      [key |-> "processingDays", patterns |-> <<
            <<"p","r","o","c","e","s","s","i","n","g","_","d","a","y","s">>,
            <<"l","e","a","d","_","t","i","m","e">>,
            <<"d","e","l","i","v","e","r","y">>>>],
      [key |-> "size", patterns |-> <<
            <<"l","e","n","s","_","w","i","d","t","h">>,
            <<"l","e","n","s","w","i","d","t","h">>,
            <<"w","i","d","t","h">>,
            <<"s","i","z","e">>>>],
      [key |-> "bridgeWidth", patterns |-> <<
            <<"b","r","i","d","g","e","_","w","i","d","t","h">>,
            <<"b","r","i","d","g","e","w","i","d","t","h">>,
            <<"b","r","i","d","g","e">>>>],
      [key |-> "templeLength", patterns |-> <<
            <<"t","e","m","p","l","e","_","l","e","n","g","t","h">>,
            <<"t","e","m","p","l","e","l","e","n","g","t","h">>,
            <<"t","e","m","p","l","e">>,
            <<"a","r","m","s">>>>],
      [key |-> "lensHeight", patterns |-> <<
            <<"l","e","n","s","_","h","e","i","g","h","t">>,
            <<"l","e","n","s","h","e","i","g","h","t">>,
            <<"h","e","i","g","h","t">>>>],
      [key |-> "rimType", patterns |-> <<
            <<"r","i","m","_","t","y","p","e">>,
            <<"r","i","m","t","y","p","e">>>>],
      [key |-> "hingeType", patterns |-> <<
            <<"h","i","n","g","e","_","t","y","p","e">>,
            <<"h","i","n","g","e","t","y","p","e">>>>],
      [key |-> "gender", patterns |-> <<
            <<"g","e","n","d","e","r">>>>],
      [key |-> "season", patterns |-> <<
            <<"s","e","a","s","o","n">>>>],
      [key |-> "frameCategory", patterns |-> <<
            <<"f","r","a","m","e","_","c","a","t","e","g","o","r","y">>,
            <<"f","r","a","m","e","c","a","t","e","g","o","r","y">>,
            <<"c","a","t","e","g","o","r","y">>>>],
      [key |-> "index", patterns |-> <<
            <<"i","n","d","e","x">>,
            <<"i","n","d","i","c","e">>>>],
      [key |-> "coating", patterns |-> <<
            <<"c","o","a","t","i","n","g">>,
            <<"t","r","e","a","t","m","e","n","t">>>>],
      [key |-> "photochromic", patterns |-> <<
            <<"p","h","o","t","o","c","h","r","o","m","i","c">>,
            <<"p","h","o","t","o">>>>],
      [key |-> "polarized", patterns |-> <<
            <<"p","o","l","a","r","i","z","e","d">>,
            <<"p","o","l","a","r","i","s","e","d">>>>],
      [key |-> "baseCurve", patterns |-> <<
            <<"b","a","s","e","_","c","u","r","v","e">>,
            <<"c","u","r","v","e">>>>],
      [key |-> "diameter", patterns |-> <<
            <<"d","i","a","m","e","t","e","r">>,
            <<"d","i","a">>>>],
      [key |-> "waterContent", patterns |-> <<
            <<"w","a","t","e","r","_","c","o","n","t","e","n","t">>,
            <<"h","y","d","r","a","t","i","o","n">>>>],
      [key |-> "customsCode", patterns |-> <<
            <<"c","u","s","t","o","m","s","_","c","o","d","e">>,
            <<"c","u","s","t","o","m","s","c","o","d","e">>,
            <<"c","u","s","t","o","m"," ","c","o","d","e">>,
            <<"c","u","s","t","o","m","c","o","d","e">>>>],
      [key |-> "quantity", patterns |-> <<
            <<"q","u","a","n","t","i","t","y">>,
            <<"q","t","y">>>>]
    >>

\* Object.entries(MAPPING_PATTERNS) and its patterns, in iteration order
RECURSIVE PatternsFrom(_)
PatternsFrom(k) ==
    IF k > Len(MAPPING_PATTERNS) THEN <<>>
    ELSE [i \in 1..Len(MAPPING_PATTERNS[k].patterns) |->
            [goHubKey |-> MAPPING_PATTERNS[k].key,
             normalizedPattern |-> _normalizeForMatching(MAPPING_PATTERNS[k].patterns[i])]]
         \o PatternsFrom(k + 1)

PatternList == PatternsFrom(1)

\* the second loop alone, without the pass of exact matches
_findBestMatchingField_containsOnly(csvHeader) ==
    LET normalizedHeader == _normalizeForMatching(csvHeader)
        contains == {i \in 1..Len(PatternList) :
                       \/ includes(normalizedHeader, PatternList[i].normalizedPattern)
                       \/ includes(PatternList[i].normalizedPattern, normalizedHeader)}
    IN IF contains # {} THEN PatternList[Least(contains)].goHubKey ELSE ""

\* "" stands for null
_findBestMatchingField(csvHeader) ==
    LET normalizedHeader == _normalizeForMatching(csvHeader)
        exact == {i \in 1..Len(PatternList) :
                    normalizedHeader = PatternList[i].normalizedPattern}
        contains == {i \in 1..Len(PatternList) :
                       \/ includes(normalizedHeader, PatternList[i].normalizedPattern)
                       \/ includes(PatternList[i].normalizedPattern, normalizedHeader)}
    IN IF exact # {} THEN PatternList[Least(exact)].goHubKey
       ELSE IF contains # {} THEN PatternList[Least(contains)].goHubKey
       ELSE ""

GOHUB_SCHEMAS(productType) ==
    CASE productType = "FRAME" ->
    <<
       [key |-> "brand", label |-> "Brand"], [key |-> "frameCategory", label |-> "Frame category"],
       [key |-> "sku", label |-> "SKU"], [key |-> "description", label |-> "Description"],
       [key |-> "collection", label |-> "Collection"], [key |-> "gender", label |-> "Gender"],
       [key |-> "frameType", label |-> "Frame type"], [key |-> "frameMaterial", label |-> "Frame material"],
       [key |-> "frameShape", label |-> "Frame shape"], [key |-> "color", label |-> "Color"],
       [key |-> "colorDescription", label |-> "Color description"], [key |-> "lensWidth", label |-> "Lens width"],
       [key |-> "bridgeWidth", label |-> "Bridge width"], [key |-> "templeLength", label |-> "Temple length"],
       [key |-> "lensHeight", label |-> "Lens height"], [key |-> "rimType", label |-> "Rim type"],
       [key |-> "hingeType", label |-> "Hinge type"], [key |-> "manufacturerModel", label |-> "Manufacturer model #"],
       [key |-> "upc", label |-> "UPC"], [key |-> "season", label |-> "Season"],
       [key |-> "weight", label |-> "Weight"], [key |-> "recommendedPrice", label |-> "Recommended Price"],
       [key |-> "price", label |-> "Price"], [key |-> "processingDays", label |-> "Processing days"],
       [key |-> "image1", label |-> "Image1"], [key |-> "image2", label |-> "Image2"],
       [key |-> "image3", label |-> "Image3"] >>
      [] productType = "LENS" ->
    <<
       [key |-> "opticalSolution", label |-> "OpticalSolution"], [key |-> "solution", label |-> "Solution"],
       [key |-> "opticalDesign", label |-> "OpticalDesign"], [key |-> "index", label |-> "Index"],
       [key |-> "diameter", label |-> "Diameter"], [key |-> "coating", label |-> "Coating"],
       [key |-> "treatment", label |-> "Treatment"], [key |-> "treatmentColor", label |-> "TreatmentColor"],
       [key |-> "photochromic", label |-> "Photochromic"], [key |-> "ar", label |-> "AR"],
       [key |-> "sku", label |-> "SKU"], [key |-> "supplierName", label |-> "SupplierName"],
       [key |-> "weight", label |-> "Weight"], [key |-> "price", label |-> "Price"],
       [key |-> "processingDays", label |-> "ProcessingDays"], [key |-> "sphereRangeMin", label |-> "SphereRangeMin"],
       [key |-> "sphereRangeMax", label |-> "SphereRangeMax"], [key |-> "cylinderRangeMin", label |-> "CylinderRangeMin"],
       [key |-> "cylinderRangeMax", label |-> "CylinderRangeMax"], [key |-> "addRangeMin", label |-> "AddRangeMin"],
       [key |-> "addRangeMax", label |-> "AddRangeMax"] >>
      [] productType = "EYE_GLASSES" ->
    <<
       [key |-> "brand", label |-> "Brand"], [key |-> "sku", label |-> "SKU"],
       [key |-> "description", label |-> "Description"], [key |-> "frameSku", label |-> "Frame SKU"],
       [key |-> "lensSku", label |-> "Lens SKU"], [key |-> "gender", label |-> "Gender"],
       [key |-> "frameMaterial", label |-> "FrameMaterial"], [key |-> "frameShape", label |-> "FrameShape"],
       [key |-> "color", label |-> "Color"], [key |-> "lensType", label |-> "LensType"],
       [key |-> "index", label |-> "Index"], [key |-> "coating", label |-> "Coating"],
       [key |-> "ar", label |-> "AR"], [key |-> "photochromic", label |-> "Photochromic"],
       [key |-> "sphereRangeMin", label |-> "SphereRangeMin"], [key |-> "sphereRangeMax", label |-> "SphereRangeMax"],
       [key |-> "cylinderRangeMin", label |-> "CylinderRangeMin"], [key |-> "cylinderRangeMax", label |-> "CylinderRangeMax"],
       [key |-> "addRangeMin", label |-> "AddRangeMin"], [key |-> "addRangeMax", label |-> "AddRangeMax"],
       [key |-> "pdRangeMin", label |-> "PDRangeMin"], [key |-> "pdRangeMax", label |-> "PDRangeMax"],
       [key |-> "price", label |-> "Price"], [key |-> "processingDays", label |-> "ProcessingDays"],
       [key |-> "weight", label |-> "Weight"], [key |-> "image1", label |-> "Image1"],
       [key |-> "image2", label |-> "Image2"] >>
      [] productType = "CONTACT_LENS" ->
    <<
       [key |-> "brand", label |-> "Brand"], [key |-> "sku", label |-> "SKU"],
       [key |-> "description", label |-> "Description"], [key |-> "lensModality", label |-> "LensModality"],
       [key |-> "wearSchedule", label |-> "WearSchedule"], [key |-> "replacementSchedule", label |-> "ReplacementSchedule"],
       [key |-> "material", label |-> "Material"], [key |-> "waterContent", label |-> "WaterContent"],
       [key |-> "oxygenPermeability", label |-> "OxygenPermeability"], [key |-> "baseCurve", label |-> "BaseCurve"],
       [key |-> "diameter", label |-> "Diameter"], [key |-> "powerRangeMin", label |-> "PowerRangeMin"],
       [key |-> "powerRangeMax", label |-> "PowerRangeMax"], [key |-> "cylinderRangeMin", label |-> "CylinderRangeMin"],
       [key |-> "cylinderRangeMax", label |-> "CylinderRangeMax"], [key |-> "axisSteps", label |-> "AxisSteps"],
       [key |-> "addPowerOptions", label |-> "AddPowerOptions"] >>
      [] OTHER -> <<>>

getSchemaValues(productType) ==
    [i \in 1..Len(GOHUB_SCHEMAS(productType)) |-> GOHUB_SCHEMAS(productType)[i].label]

\* An object with string keys, as its entries in insertion order.
ObjHas(o, k) == \E i \in 1..Len(o) : o[i].key = k
ObjGet(o, k) == o[CHOOSE i \in 1..Len(o) : o[i].key = k].val
ObjPut(o, k, v) ==
    IF ObjHas(o, k)
    THEN [i \in 1..Len(o) |-> IF o[i].key = k THEN [key |-> k, val |-> v] ELSE o[i]]
    ELSE Append(o, [key |-> k, val |-> v])
ObjValues(o) == [i \in 1..Len(o) |-> o[i].val]

\* mapping[k] is truthy: the key is there and its header is not ''
Mapped(mapping, k) == ObjHas(mapping, k) /\ ObjGet(mapping, k) # <<>>

\* Array.prototype.indexOf, counted from 0, -1 when absent
indexOf(arr, x) ==
    IF \E i \in 1..Len(arr) : arr[i] = x
    THEN Least({i \in 1..Len(arr) : arr[i] = x}) - 1
    ELSE 0 - 1

\* arr.splice(start, 1): a negative start counts from the end
splice1(arr, start) ==
    LET at == IF start < 0 THEN (IF Len(arr) + start < 0 THEN 0 ELSE Len(arr) + start)
              ELSE start
    IN IF at >= Len(arr) THEN arr
       ELSE SubSeq(arr, 1, at) \o SubSeq(arr, at + 2, Len(arr))

_calculateMappingConfidence(targetField, inputHeader, pattern) ==
    LET normalizedInput == _normalizeForMatching(inputHeader)
        normalizedPattern == _normalizeForMatching(pattern)
        lo == Min(Len(normalizedInput), Len(normalizedPattern))
        hi == IF Len(normalizedInput) > Len(normalizedPattern)
              THEN Len(normalizedInput) ELSE Len(normalizedPattern)
    IN IF normalizedInput = normalizedPattern THEN 95
       ELSE IF \/ includes(normalizedInput, normalizedPattern)
               \/ includes(normalizedPattern, normalizedInput)
       THEN 70 + Round(25 * lo, hi)
       ELSE 60

RECURSIVE Sum(_)
Sum(seq) == IF seq = <<>> THEN 0 ELSE Head(seq) + Sum(Tail(seq))

_calculateAverageConfidence(confidenceMap) ==
    LET confidences == ObjValues(confidenceMap)
    IN IF Len(confidences) = 0 THEN 0 ELSE Round(Sum(confidences), Len(confidences))

\* one iteration of the forEach of step 1 of mapColumns
DirectStep(st, header) ==
    LET targetField == _findBestMatchingField(header)
        unmappedIndex == indexOf(st.unmapped, header)
    IN IF /\ targetField # ""
          /\ ~Mapped(st.mapping, targetField)
          /\ ~(\E i \in 1..Len(st.mapping) : st.mapping[i].val = header)
       THEN [mapping    |-> ObjPut(st.mapping, targetField, header),
             confidence |-> ObjPut(st.confidence, targetField,
                                   _calculateMappingConfidence(targetField, header, header)),
             unmapped   |-> IF unmappedIndex > 0 - 1
                            THEN splice1(st.unmapped, unmappedIndex) ELSE st.unmapped,
             unmatched  |-> IF unmappedIndex > 0 - 1
                            THEN splice1(st.unmatched, unmappedIndex) ELSE st.unmatched]
       ELSE st

RECURSIVE DirectFrom(_, _, _)
DirectFrom(st, inputHeaders, i) ==
    IF i > Len(inputHeaders) THEN st
    ELSE DirectFrom(DirectStep(st, inputHeaders[i]), inputHeaders, i + 1)

sizePatterns ==
    << <<"s","i","z","e">>, <<"s","i","z","e","s">>, <<"d","i","m","e","n","s","i","o","n">>,
       <<"d","i","m","e","n","s","i","o","n","s">>,
       <<"m","e","a","s","u","r","e","m","e","n","t","s">>,
       <<"m","e","a","s","u","r","e">> >>

\* Array.prototype.find as an index over the callback's verdicts, one per
\* element in array order: the first true one, 0 when nothing is found
FindIndex(hits) ==
    IF \E i \in 1..Len(hits) : hits[i]
    THEN Least({i \in 1..Len(hits) : hits[i]})
    ELSE 0

_handleComplexMappings(st, normalizedInputHeaders, productType) ==
    LET isSize(header) ==
            LET normalizedHeader == _normalizeForMatching(header)
            IN \E p \in 1..Len(sizePatterns) :
                  LET normalizedPattern == _normalizeForMatching(sizePatterns[p])
                  IN \/ normalizedHeader = normalizedPattern
                     \/ includes(normalizedHeader, normalizedPattern)
                     \/ includes(normalizedPattern, normalizedHeader)
        sizeAt == FindIndex([i \in 1..Len(normalizedInputHeaders) |-> isSize(normalizedInputHeaders[i])])
        sizeField == IF sizeAt = 0 THEN <<>> ELSE normalizedInputHeaders[sizeAt]
        useSize == /\ sizeField # <<>>
                   /\ ~Mapped(st.mapping, "size")
                   /\ ~Mapped(st.mapping, "lensWidth")
                   /\ ~Mapped(st.mapping, "bridgeWidth")
                   /\ ~Mapped(st.mapping, "templeLength")
        sizeUnmapped == indexOf(st.unmapped, sizeField)
        sizeUnmatched == indexOf(st.unmatched, "size")
        st1 == IF useSize
               THEN [mapping    |-> ObjPut(st.mapping, "size", sizeField),
                     confidence |-> ObjPut(st.confidence, "size",
                                           IF _normalizeForMatching(sizeField) = Chars("size")
                                           THEN 85 ELSE 70),
                     unmapped   |-> IF sizeUnmapped > 0 - 1
                                    THEN splice1(st.unmapped, sizeUnmapped)
                                    ELSE st.unmapped,
                     unmatched  |-> IF sizeUnmatched > 0 - 1
                                    THEN splice1(st.unmatched, sizeUnmapped)
                                    ELSE st.unmatched]
               ELSE st
        isCharacteristic(header) == includes(_normalizeForMatching(header), Chars("characteristic"))
        isComposition(header) ==
            \/ includes(_normalizeForMatching(header), Chars("composition"))
            \/ includes(_normalizeForMatching(header), Chars("material"))
        charAt == FindIndex([i \in 1..Len(normalizedInputHeaders) |-> isCharacteristic(normalizedInputHeaders[i])])
        compAt == FindIndex([i \in 1..Len(normalizedInputHeaders) |-> isComposition(normalizedInputHeaders[i])])
        materialField == IF charAt # 0 THEN normalizedInputHeaders[charAt]
                         ELSE IF compAt # 0 THEN normalizedInputHeaders[compAt]
                         ELSE <<>>
        materialUnmapped == indexOf(st1.unmapped, materialField)
        materialUnmatched == indexOf(st1.unmatched, "frameMaterial")
        st2 == IF materialField # <<>> /\ ~Mapped(st1.mapping, "frameMaterial")
               THEN [mapping    |-> ObjPut(st1.mapping, "frameMaterial", materialField),
                     confidence |-> ObjPut(st1.confidence, "frameMaterial", 80),
                     unmapped   |-> IF materialUnmapped > 0 - 1
                                    THEN splice1(st1.unmapped, materialUnmapped)
                                    ELSE st1.unmapped,
                     unmatched  |-> IF materialUnmatched > 0 - 1
                                    THEN splice1(st1.unmatched, materialUnmatched)
                                    ELSE st1.unmatched]
               ELSE st1
    IN IF productType = "FRAME" THEN st2 ELSE st

mapColumns(inputHeaders, productType) ==
    LET targetSchema == getSchemaValues(productType)
        start == [mapping |-> <<>>, confidence |-> <<>>,
                  unmapped |-> inputHeaders, unmatched |-> targetSchema]
        direct == DirectFrom(start, inputHeaders, 1)
        final == _handleComplexMappings(direct, inputHeaders, productType)
    IN [productType      |-> productType,
        mapping          |-> final.mapping,
        confidence       |-> final.confidence,
        unmappedInputs   |-> final.unmapped,
        unmatchedTargets |-> final.unmatched,
        mappingStats     |-> [totalInputs   |-> Len(inputHeaders),
                              totalTargets  |-> Len(targetSchema),
                              mapped        |-> Len(final.mapping),
                              avgConfidence |-> _calculateAverageConfidence(final.confidence)]]

-----------------------------------------------------------------------------
(* The mapper as a state machine: mapColumns is called once with the headers *)
(* the reader delivers, which are already normalized, and a product type.    *)

MaxHeaders == 3

HeaderPool ==
    { <<"r","e","f","e","r","e","n","c","e">>,
      <<"s","i","z","e","c","o","d","e">>,
      <<"s","i","z","e">>,
      <<"d","i","m","e","n","s","i","o","n","s">>,
      <<"f","r","a","m","e","_","c","o","l","o","r">>,
      <<"b","r","i","d","g","e","_","w","i","d","t","h">>,
      <<"c","h","a","r","a","c","t","e","r","i","s","t","i","c","s">>,
      <<"c","o","m","p","o","s","i","t","i","o","n">>,
      <<"m","a","t","e","r","i","a","l","i","d">> }

ProductTypes == {"FRAME", "LENS", "EYE_GLASSES", "CONTACT_LENS", "UNKNOWN"}

HeaderLists == UNION { [1..n -> HeaderPool] : n \in 0..MaxHeaders }

InitMapper ==
    /\ mapper \in {[pc |-> "idle", inputHeaders |-> h, productType |-> ty] :
                     h \in HeaderLists, ty \in ProductTypes}
    /\ engine = "BatchAIEnhancer"
    /\ apiKey = FALSE
    /\ rows = <<>>
    /\ EnhancerIdle
    /\ OthersIdle({"mapper"})

MapColumns ==
    /\ mapper.pc = "idle"
    /\ mapper' = [pc |-> "mapped", inputHeaders |-> mapper.inputHeaders,
                  productType |-> mapper.productType,
                  result |-> mapColumns(mapper.inputHeaders, mapper.productType)]
    /\ UNCHANGED <<enhancerVars, transformer, cleaner, detector, reader>>

NextMapper == MapColumns

SpecMapper == InitMapper /\ [][NextMapper]_vars

(* C1: the mapping mapColumns returns is injective: no header is the value
   of two field keys, and no field key occurs twice. *)
C1_InjectiveMapping ==
    mapper.pc = "mapped" =>
        LET mapping == mapper.result.mapping
        IN \A i \in 1..Len(mapping) : \A j \in 1..Len(mapping) :
              i # j => /\ mapping[i].val # mapping[j].val
                       /\ mapping[i].key # mapping[j].key

\* the header equals, after normalization, one of the patterns of the key
ExactPatternOf(goHubKey, header) ==
    \E i \in 1..Len(PatternList) :
        /\ PatternList[i].goHubKey = goHubKey
        /\ PatternList[i].normalizedPattern = _normalizeForMatching(header)

ScenarioA ==
    << <<"r","e","f","e","r","e","n","c","e">>,
       <<"f","r","a","m","e","_","c","o","l","o","r">>,
       <<"b","r","i","d","g","e","_","w","i","d","t","h">> >>

(* C11: for the headers reference, frame_color, bridge_width and type FRAME
   the mapping is sku -> reference with confidence 95, color -> frame_color
   and bridgeWidth -> bridge_width, both by an exact pattern match, and the
   list of unmapped inputs is empty. *)
C11_ScenarioA ==
    (/\ mapper.pc = "mapped"
     /\ mapper.inputHeaders = ScenarioA
     /\ mapper.productType = "FRAME")
    => LET r == mapper.result
       IN /\ r.mapping = << [key |-> "sku", val |-> ScenarioA[1]],
                            [key |-> "color", val |-> ScenarioA[2]],
                            [key |-> "bridgeWidth", val |-> ScenarioA[3]] >>
          /\ ObjGet(r.confidence, "sku") = 95
          /\ ExactPatternOf("color", ScenarioA[2])
          /\ ExactPatternOf("bridgeWidth", ScenarioA[3])
          /\ r.unmappedInputs = <<>>

C11_Witness ==
    /\ mapper.pc = "mapped"
    /\ mapper.inputHeaders = ScenarioA
    /\ mapper.productType = "FRAME"
    /\ Len(mapper.result.mapping) = 3

\* the mapping after the direct pattern pass alone
DirectMapping(inputHeaders, productType) ==
    DirectFrom([mapping |-> <<>>, confidence |-> <<>>, unmapped |-> inputHeaders,
                unmatched |-> getSchemaValues(productType)], inputHeaders, 1).mapping

\* the normalized pattern by which _findBestMatchingField matched the header
MatchedPattern(header) ==
    LET normalizedHeader == _normalizeForMatching(header)
        exact == {i \in 1..Len(PatternList) :
                    normalizedHeader = PatternList[i].normalizedPattern}
        contains == {i \in 1..Len(PatternList) :
                       \/ includes(normalizedHeader, PatternList[i].normalizedPattern)
                       \/ includes(PatternList[i].normalizedPattern, normalizedHeader)}
    IN PatternList[Least(IF exact # {} THEN exact ELSE contains)].normalizedPattern

(* C24: the confidence mapColumns reports for a header mapped in the direct
   pattern pass is 95 when the normalized header equals the matched pattern
   and round(70 + 25 * min(len)/max(len)) of the two lengths when it matched
   by containment, and it is never below 60. *)
C24_DirectPassConfidence ==
    mapper.pc = "mapped" =>
        LET direct == DirectMapping(mapper.inputHeaders, mapper.productType)
        IN \A i \in 1..Len(direct) :
              LET h == _normalizeForMatching(direct[i].val)
                  p == MatchedPattern(direct[i].val)
                  lo == Min(Len(h), Len(p))
                  hi == IF Len(h) > Len(p) THEN Len(h) ELSE Len(p)
                  conf == ObjGet(mapper.result.confidence, direct[i].key)
              IN /\ conf >= 60
                 /\ conf = IF h = p THEN 95 ELSE 70 + Round(25 * lo, hi)

\* the header matches one of the generic size synonyms of the composite pass
GenericSize(header) ==
    LET normalizedHeader == _normalizeForMatching(header)
    IN \E p \in 1..Len(sizePatterns) :
          LET normalizedPattern == _normalizeForMatching(sizePatterns[p])
          IN \/ normalizedHeader = normalizedPattern
             \/ includes(normalizedHeader, normalizedPattern)
             \/ includes(normalizedPattern, normalizedHeader)

(* C25: for type FRAME, when the direct pass mapped no individual width,
   bridge or temple header and some header is a generic size synonym, the
   result maps the size key to such a header with confidence 85 if the
   header normalizes to "size" and 70 otherwise; for every other type the
   result is the one of the direct pass. *)
C25_CompositeSize ==
    mapper.pc = "mapped" =>
        LET r == mapper.result
            direct == DirectMapping(mapper.inputHeaders, mapper.productType)
            individual ==
                \E i \in 1..Len(direct) :
                    \/ direct[i].key \in {"lensWidth", "bridgeWidth", "templeLength"}
                    \/ direct[i].key = "size" /\ ~GenericSize(direct[i].val)
            generic == \E i \in 1..Len(mapper.inputHeaders) :
                          GenericSize(mapper.inputHeaders[i])
        IN IF mapper.productType = "FRAME"
           THEN (~individual /\ generic) =>
                   /\ ObjHas(r.mapping, "size")
                   /\ GenericSize(ObjGet(r.mapping, "size"))
                   /\ ObjGet(r.confidence, "size") =
                        IF _normalizeForMatching(ObjGet(r.mapping, "size")) = Chars("size")
                        THEN 85 ELSE 70
           ELSE /\ r.mapping = direct
                /\ Len(r.confidence) = Len(direct)

(* C26: for type FRAME, when the headers hold a characteristics header and
   a composition or material header, in either order, the result maps
   frameMaterial to the characteristics header, with confidence 80. *)
C26_CharacteristicsPreferred ==
    (mapper.pc = "mapped" /\ mapper.productType = "FRAME") =>
        LET headers == mapper.inputHeaders
            r == mapper.result
            chars == {i \in 1..Len(headers) :
                        includes(_normalizeForMatching(headers[i]), Chars("characteristic"))}
            comps == {i \in 1..Len(headers) :
                        \/ includes(_normalizeForMatching(headers[i]), Chars("composition"))
                        \/ includes(_normalizeForMatching(headers[i]), Chars("material"))}
        IN (chars # {} /\ comps # {}) =>
              /\ ObjHas(r.mapping, "frameMaterial")
              /\ ObjGet(r.mapping, "frameMaterial") = headers[Least(chars)]
              /\ ObjGet(r.confidence, "frameMaterial") = 80

(* C27: in the result of mapColumns, unmappedInputs is the list of the
   input headers that are the value of no mapping entry, and unmatchedTargets
   is the list of the fields of the target schema whose key received no
   header. *)
C27_UnmappedAndUnmatched ==
    mapper.pc = "mapped" =>
        LET r == mapper.result
            schema == GOHUB_SCHEMAS(mapper.productType)
            unfilled == SelectSeq(schema, LAMBDA f : ~ObjHas(r.mapping, f.key))
        IN /\ r.unmappedInputs =
                 SelectSeq(mapper.inputHeaders,
                           LAMBDA h : ~\E i \in 1..Len(r.mapping) : r.mapping[i].val = h)
           /\ r.unmatchedTargets = [i \in 1..Len(unfilled) |-> unfilled[i].label]

\* reverseMapping[fieldName] || fieldName of cleanBatch, for the mapping
\* mapColumns returns: the last entry of a header wins
TargetFieldName(mapping, fieldName) ==
    LET at == {i \in 1..Len(mapping) : mapping[i].val = fieldName}
    IN IF at = {} THEN fieldName
       ELSE Chars(mapping[CHOOSE i \in at : \A j \in at : j <= i].key)

\* the keys of the raw row are the ones the mapping of mapColumns for the
\* row's headers and type FRAME gives them
KeyedByMapColumns(raw) ==
    LET mapping == mapColumns([i \in 1..Len(raw) |-> raw[i].header], "FRAME").mapping
    IN \A i \in 1..Len(raw) : raw[i].key = TargetFieldName(mapping, raw[i].header)

(* C29: for a raw row keyed by the mapping mapColumns produces for its
   headers, the cleaned row of cleanBatch holds one cleaned field per raw
   field: no two headers of the row are written to the same key. *)
C29_RekeyWithoutLoss ==
    cleaner.pc = "cleaned" =>
        \A r \in 1..Len(cleaner.rows) :
            KeyedByMapColumns(cleaner.rows[r]) =>
                /\ Cardinality(DOMAIN cleaner.result.cleanedRows[r].f) = Len(cleaner.rows[r])
                /\ \A i \in 1..Len(cleaner.rows[r]) : \A j \in 1..Len(cleaner.rows[r]) :
                      i # j => cleaner.rows[r][i].key # cleaner.rows[r][j].key

-----------------------------------------------------------------------------
(* GoHubTransformer *)

(* The values an enhanced field can hold when it reaches the transformer:
     text  a string
     obj   an object the service returned, whose summary is a string ("str"),
           a number ("num") or missing ("none")
     arr   an array the service returned, whose first element is missing
           ("none", the empty array), null, an object or a string
     id    the string of a sku, told apart by the position of its row *)
TText == [t |-> "text", s |-> "Aviator LAS VEGAS"]
TObj(summary) == [t |-> "obj", summary |-> summary]
TArr(first) == [t |-> "arr", first |-> first]

Str(s) == [t |-> "str", s |-> s]

getSchema(productType) ==
    [i \in 1..Len(GOHUB_SCHEMAS(productType)) |-> GOHUB_SCHEMAS(productType)[i].key]

\* _cleanValue on these values: whether it throws, and the string it returns
_cleanValue(value, maxLength) ==
    CASE value.t = "text" -> [threw |-> FALSE, s |-> Str(value.s)]
      [] value.t = "id"   -> [threw |-> FALSE, s |-> value]
      [] value.t = "arr"  ->
            IF value.first = "none" THEN [threw |-> FALSE, s |-> Str("")]
            ELSE IF value.first = "obj" THEN [threw |-> FALSE, s |-> Str("Summary")]
            ELSE IF value.first = "null" THEN [threw |-> FALSE, s |-> Str("")]
            ELSE [threw |-> FALSE, s |-> Str("item")]
      [] value.t = "obj"  ->
            IF value.summary = "str" THEN [threw |-> FALSE, s |-> Str("Summary")]
            ELSE IF value.summary = "num"
            THEN \* summary.substring is not a function
                 [threw |-> TRUE, s |-> Str("")]
            ELSE [threw |-> FALSE, s |-> Str("Object data")]

\* row.name && row.name.value
HasValue(row, name) == name \in DOMAIN row

\* The statements of mapGoHubFields that read the fields of these rows, in
\* order; the first that throws ends the call.
mapGoHubFields(transformed, row, targetSchema, productType, brand) ==
    LET set(f, k, v) == [x \in DOMAIN f \cup {k} |-> IF x = k THEN v ELSE f[x]]
        color == IF HasValue(row, "color")
                 THEN _cleanValue(row.color, 200) ELSE [threw |-> FALSE, s |-> Str("")]
        desc == IF HasValue(row, "description")
                THEN _cleanValue(row.description, 200) ELSE [threw |-> FALSE, s |-> Str("")]
        isArr == HasValue(row, "description") /\ row.description.t = "arr"
        \* firstDesc.collection with firstDesc undefined or null
        firstThrows == isArr /\ row.description.first \in {"none", "null"}
        t1 == set(transformed, "brand", Str(brand))
        t2 == set(t1, "frameCategory",
                  Str(IF HasValue(row, "color") THEN "Sunglasses" ELSE "Eyeglasses"))
        t3 == IF HasValue(row, "sku") THEN set(t2, "sku", row.sku) ELSE t2
        t4 == IF HasValue(row, "description") THEN set(t3, "description", desc.s) ELSE t3
        t5 == IF isArr /\ row.description.first = "obj"
              THEN set(t4, "collection", Str("CLASSIC"))
              ELSE IF HasValue(row, "description") /\ row.description.t = "text"
              THEN set(t4, "collection", Str("LAS VEGAS"))
              ELSE t4
        t6 == set(t5, "gender", Str("Unisex"))
        t7 == IF isArr /\ row.description.first = "obj"
              THEN set(set(t6, "frameType", Str("full-rim")), "frameShape", Str("round"))
              ELSE t6
        t8 == IF HasValue(row, "color") THEN set(t7, "color", color.s) ELSE t7
        t9 == set(set(set(set(set(t8, "season", Str("All Year")), "weight", Str("")),
                          "processingDays", Str("")), "image2", Str("")), "image3", Str(""))
    IN IF color.threw \/ desc.threw \/ firstThrows
       THEN [threw |-> TRUE, transformed |-> transformed]
       ELSE [threw |-> FALSE, transformed |-> t9]

transformRow(row, targetSchema, productType, brand) ==
    LET keys == {targetSchema[i] : i \in 1..Len(targetSchema)}
    IN mapGoHubFields([k \in keys |-> Str("")], row, targetSchema, productType, brand)

\* mappableFields.some(field => fieldLower.includes(field)) for the keys of
\* these rows
canMapToGoHub(sourceField, targetSchema) == sourceField \in {"sku", "color", "description"}

analyzeMappingCoverage(enhancedRows, targetSchema) ==
    IF Len(enhancedRows) = 0
    THEN [coverage |-> [finite |-> TRUE, n |-> 0], mappedFields |-> 0, totalFields |-> 0]
    ELSE LET mappedFields ==
                 Cardinality({f \in DOMAIN enhancedRows[1] : canMapToGoHub(f, targetSchema)})
             total == Len(targetSchema)
         IN [coverage |-> IF total = 0 THEN [finite |-> FALSE, n |-> 0]
                          ELSE [finite |-> TRUE, n |-> Round(100 * mappedFields, total)],
             mappedFields |-> mappedFields, totalFields |-> total]

\* the fields of a transformed row that are truthy and not ''
Filled(transformed) == Cardinality({k \in DOMAIN transformed : transformed[k] # Str("")})

\* the body of the forEach of transformToGoHub without its try and catch
TransformEach_noCatch(acc, row, targetSchema, productType, brand) ==
    LET r == transformRow(row, targetSchema, productType, brand)
    IN IF acc.raised \/ r.threw THEN [acc EXCEPT !.raised = TRUE]
       ELSE [acc EXCEPT !.transformedRows = Append(@, r.transformed),
                        !.stats.successfulTransforms = @ + 1,
                        !.stats.fieldsProcessed = @ + Filled(r.transformed)]

\* the body of the forEach of transformToGoHub
TransformEach(acc, row, targetSchema, productType, brand) ==
    LET r == transformRow(row, targetSchema, productType, brand)
    IN IF r.threw
       THEN [acc EXCEPT !.stats.failedTransforms = @ + 1]
       ELSE [acc EXCEPT !.transformedRows = Append(@, r.transformed),
                        !.stats.successfulTransforms = @ + 1,
                        !.stats.fieldsProcessed = @ + Filled(r.transformed)]

RECURSIVE TransformFrom(_, _, _, _, _, _)
TransformFrom(acc, enhancedRows, i, targetSchema, productType, brand) ==
    IF i > Len(enhancedRows) THEN acc
    ELSE TransformFrom(TransformEach(acc, enhancedRows[i], targetSchema, productType, brand),
                       enhancedRows, i + 1, targetSchema, productType, brand)

transformToGoHub(enhancedRows, productType, brand) ==
    LET targetSchema == getSchema(productType)
        mappingCoverage == analyzeMappingCoverage(enhancedRows, targetSchema)
        start == [raised |-> FALSE, transformedRows |-> <<>>,
                  stats |-> [totalRows |-> Len(enhancedRows), successfulTransforms |-> 0,
                             failedTransforms |-> 0, fieldsProcessed |-> 0,
                             mappingStats |-> mappingCoverage]]
        final == TransformFrom(start, enhancedRows, 1, targetSchema, productType, brand)
    IN [raised |-> final.raised, transformedRows |-> final.transformedRows,
        stats |-> final.stats, productType |-> productType, schema |-> targetSchema,
        mappingCoverage |-> mappingCoverage]

-----------------------------------------------------------------------------
(* The transformer as a state machine: transformToGoHub is called once on   *)
(* the rows the enhancer returned.                                          *)

MaxTransformRows == 3

\* the fields of a row besides its sku
RowShapes ==
    { [description |-> TText],
      [color |-> TText, description |-> TObj("str")],
      [color |-> TObj("num")],
      [description |-> TArr("none")],
      [description |-> TArr("null")],
      [color |-> TText, description |-> TArr("obj")] }

WithSku(shape, i) ==
    [k \in DOMAIN shape \cup {"sku"} |-> IF k = "sku" THEN [t |-> "id", n |-> i] ELSE shape[k]]

TransformerInputs ==
    UNION { {[i \in 1..n |-> WithSku(sh[i], i)] : sh \in [1..n -> RowShapes]} :
              n \in 0..MaxTransformRows }

InitTransformer ==
    /\ transformer \in {[pc |-> "idle", enhancedRows |-> r, productType |-> ty] :
                          r \in TransformerInputs, ty \in {"FRAME", "UNKNOWN"}}
    /\ engine = "BatchAIEnhancer"
    /\ apiKey = FALSE
    /\ rows = <<>>
    /\ EnhancerIdle
    /\ OthersIdle({"transformer"})

TransformToGoHub ==
    /\ transformer.pc = "idle"
    /\ LET result == transformToGoHub(transformer.enhancedRows, transformer.productType,
                                      "Ocean")
       IN transformer' = [pc |-> IF result.raised THEN "raised" ELSE "done",
                          enhancedRows |-> transformer.enhancedRows,
                          productType |-> transformer.productType,
                          result |-> result]
    /\ UNCHANGED <<enhancerVars, mapper, cleaner, detector, reader>>

NextTransformer == TransformToGoHub

SpecTransformer == InitTransformer /\ [][NextTransformer]_vars

\* the sku of every row that reached the output, in output order
OutputSkus ==
    [i \in 1..Len(transformer.result.transformedRows) |->
        transformer.result.transformedRows[i]["sku"].n]

\* the positions of the input rows whose transformation throws
Throwing ==
    {i \in 1..Len(transformer.enhancedRows) :
        transformRow(transformer.enhancedRows[i], getSchema(transformer.productType),
                     transformer.productType, "Ocean").threw}

(* C10: transformToGoHub returns although rows fail: the rows whose
   transformation throws are counted in failedTransforms and are missing
   from transformedRows, the others are in transformedRows in input order,
   successfulTransforms + failedTransforms = totalRows and transformedRows
   has successfulTransforms entries. *)
C10_RowFailuresIsolated ==
    transformer.pc # "idle" =>
        LET res == transformer.result
            n == Len(transformer.enhancedRows)
        IN /\ transformer.pc = "done"
           /\ res.stats.totalRows = n
           /\ res.stats.failedTransforms = Cardinality(Throwing)
           /\ res.stats.successfulTransforms + res.stats.failedTransforms = n
           /\ Len(res.transformedRows) = res.stats.successfulTransforms
           /\ \A i \in 1..Len(OutputSkus) : OutputSkus[i] \notin Throwing
           /\ \A i \in 1..Len(OutputSkus) : \A j \in 1..Len(OutputSkus) :
                i < j => OutputSkus[i] < OutputSkus[j]

\* a row failed between two rows that were transformed
C10_Witness ==
    /\ transformer.pc = "done"
    /\ Len(transformer.enhancedRows) = 3
    /\ Throwing = {2}
    /\ Len(transformer.result.transformedRows) = 2

-----------------------------------------------------------------------------
(* ProductTypeDetector *)

\* Object.entries(KEYWORDS), in iteration order
KEYWORDS ==
    <<
      [type |-> "LENS", keywords |-> <<
            <<"o","p","t","i","c","a","l"," ","s","o","l","u","t","i","o","n">>,
            <<"s","p","h","e","r","e"," ","r","a","n","g","e">>,
            <<"c","y","l","i","n","d","e","r"," ","r","a","n","g","e">>,
            <<"a","d","d"," ","r","a","n","g","e">>,
            <<"p","r","o","g","r","e","s","s","i","v","e">>,
            <<"s","i","n","g","l","e"," ","v","i","s","i","o","n">>,
            <<"b","i","f","o","c","a","l">>,
            <<"i","n","d","e","x">>,
            <<"c","o","a","t","i","n","g">>,
            <<"p","h","o","t","o","c","h","r","o","m","i","c">>,
            <<"t","r","e","a","t","m","e","n","t">>,
            <<"l","e","n","s"," ","d","i","a","m","e","t","e","r">>>>],
      [type |-> "FRAME", keywords |-> <<
            <<"f","r","a","m","e">>,
            <<"b","r","i","d","g","e">>,
            <<"t","e","m","p","l","e">>,
            <<"l","e","n","s"," ","w","i","d","t","h">>,
            <<"l","e","n","s"," ","h","e","i","g","h","t">>,
            <<"f","r","a","m","e"," ","m","a","t","e","r","i","a","l">>,
            <<"f","r","a","m","e"," ","s","h","a","p","e">>,
            <<"f","r","a","m","e","t","y","p","e">>,
            <<"h","i","n","g","e">>,
            <<"r","i","m"," ","t","y","p","e">>,
            <<"c","o","l","o","r"," ","d","e","s","c","r","i","p","t","i","o","n">>,
            <<"c","o","l","l","e","c","t","i","o","n">>>>],
      [type |-> "EYE_GLASSES", keywords |-> <<
            <<"f","r","a","m","e"," ","s","k","u">>,
            <<"l","e","n","s"," ","s","k","u">>,
            <<"c","o","m","p","l","e","t","e"," ","p","a","i","r">>,
            <<"p","d"," ","r","a","n","g","e">>,
            <<"a","s","s","e","m","b","l","e","d">>,
            <<"e","y","e","g","l","a","s","s","e","s">>,
            <<"p","r","e","s","c","r","i","p","t","i","o","n">>>>],
      [type |-> "CONTACT_LENS", keywords |-> <<
            <<"c","o","n","t","a","c","t">>,
            <<"b","a","s","e"," ","c","u","r","v","e">>,
            <<"d","i","a","m","e","t","e","r">>,
            <<"w","a","t","e","r"," ","c","o","n","t","e","n","t">>,
            <<"o","x","y","g","e","n"," ","p","e","r","m","e","a","b","i","l","i","t","y">>,
            <<"d","k","/","t">>,
            <<"m","o","d","a","l","i","t","y">>,
            <<"w","e","a","r"," ","s","c","h","e","d","u","l","e">>,
            <<"r","e","p","l","a","c","e","m","e","n","t"," ","s","c","h","e","d","u","l","e">>,
            <<"m","a","t","e","r","i","a","l">>>>]
    >>

\* Array.prototype.join
RECURSIVE join(_, _)
join(arr, sep) ==
    IF arr = <<>> THEN <<>>
    ELSE IF Len(arr) = 1 THEN arr[1]
    ELSE arr[1] \o sep \o join(Tail(arr), sep)

\* the keywords of one type found in a text, in the order of the list
Found(keywords, text) == SelectSeq(keywords, LAMBDA k : includes(text, toLowerCase(k)))

\* the two keyword loops of detect: scores and matchedKeywords per type
Scan(headers, sampleRows) ==
    LET headerText == toLowerCase(join(headers, <<" ">>))
        rowText(r) == toLowerCase(join(sampleRows[r], <<" ">>))
        RECURSIVE rowsFrom(_, _, _)
        rowsFrom(keywords, acc, r) ==
            IF r > Len(sampleRows) THEN acc
            ELSE LET hit == Found(keywords, rowText(r))
                 IN rowsFrom(keywords,
                             [score |-> acc.score + Len(hit),
                              matched |-> acc.matched \o
                                  SelectSeq(hit, LAMBDA k :
                                      ~\E i \in 1..Len(acc.matched) : acc.matched[i] = k)],
                             r + 1)
    IN [t \in 1..Len(KEYWORDS) |->
          LET inHeaders == Found(KEYWORDS[t].keywords, headerText)
              all == rowsFrom(KEYWORDS[t].keywords,
                              [score |-> 2 * Len(inHeaders), matched |-> inHeaders], 1)
          IN [type |-> KEYWORDS[t].type, score |-> all.score, matched |-> all.matched]]

\* the reduce of detect: the first type with the strictly greatest score
RECURSIVE BestFrom(_, _, _)
BestFrom(entries, best, i) ==
    IF i > Len(entries) THEN best
    ELSE BestFrom(entries,
                  IF entries[i].score > best.score
                  THEN [type |-> entries[i].type, score |-> entries[i].score] ELSE best,
                  i + 1)

\* allScores.sort((a, b) => b - a)[1] || 0
SecondBest(allScores) ==
    LET top == CHOOSE i \in 1..Len(allScores) : \A j \in 1..Len(allScores) :
                   allScores[j] <= allScores[i]
        rest == {j \in 1..Len(allScores) : j # top}
    IN IF rest = {} THEN 0
       ELSE allScores[CHOOSE i \in rest : \A j \in rest : allScores[j] <= allScores[i]]

\* the confidence without the early return for a total of 0
_calculateRelativeConfidence_noZeroCase(allScores, bestType) ==
    IF bestType.score = Sum(allScores)
    THEN [num |-> IF bestType.score >= 6 THEN 95 ELSE IF bestType.score >= 4 THEN 85
                  ELSE IF bestType.score >= 2 THEN 75 ELSE 60,
          den |-> 1]
    ELSE [num |-> Min(bestType.score * 100, 95 * Sum(allScores)), den |-> Sum(allScores)]

\* ProductTypeDetector._calculateRelativeConfidence(scores, bestType); the
\* result is the fraction num / den
_calculateRelativeConfidence(allScores, bestType) ==
    LET totalScore == Sum(allScores)
        bestScore == bestType.score
        secondBestScore == SecondBest(allScores)
        \* dominanceRatio >= k
        dominates(k) == IF secondBestScore > 0 THEN bestScore >= k * secondBestScore
                        ELSE bestScore >= k
        cap == 95 * totalScore
        c0 == Min(bestScore * 100, cap)
        c1 == IF dominates(3) THEN Min(c0 + 20 * totalScore, cap) ELSE c0
        c2 == IF dominates(2) THEN Min(c1 + 10 * totalScore, cap) ELSE c1
        c3 == IF bestScore >= 4 /\ c2 < 70 * totalScore THEN 70 * totalScore ELSE c2
        c4 == IF bestScore >= 2 /\ c3 < 60 * totalScore THEN 60 * totalScore ELSE c3
    IN IF totalScore = 0 THEN [num |-> 0, den |-> 1]
       ELSE IF bestScore = totalScore
       THEN [num |-> IF bestScore >= 6 THEN 95 ELSE IF bestScore >= 4 THEN 85
                     ELSE IF bestScore >= 2 THEN 75 ELSE 60,
             den |-> 1]
       ELSE [num |-> IF c4 > 0 THEN c4 ELSE 0, den |-> totalScore]

\* ProductTypeDetector.detect(headers, sampleRows)
detect(headers, sampleRows) ==
    LET entries == Scan(headers, sampleRows)
        allScores == [t \in 1..Len(entries) |-> entries[t].score]
        bestType == BestFrom(entries, [type |-> "UNKNOWN", score |-> 0], 1)
        confidence == _calculateRelativeConfidence(allScores, bestType)
    IN [productType |-> bestType.type,
        confidence |-> Round(confidence.num, confidence.den),
        matchedKeywords |-> IF bestType.type = "UNKNOWN" THEN <<>>
                            ELSE entries[CHOOSE t \in 1..Len(entries) :
                                            entries[t].type = bestType.type].matched,
        allScores |-> allScores]

-----------------------------------------------------------------------------
(* The detector as a state machine: detect is called once on the headers   *)
(* the reader delivers and on the first rows of the file.                   *)

MaxDetectHeaders == 2
MaxSampleRows == 2

\* headers as the reader normalizes them, and the values of a sample row
DetectorInputs ==
    LET headerPool == { <<"b","r","i","d","g","e">>, <<"t","e","m","p","l","e">>,
                        <<"i","n","d","e","x">>, <<"m","a","t","e","r","i","a","l">>,
                        <<"s","k","u">> }
        rowPool == { << <<"T","e","m","p","l","e"," ","1","4","0">> >>,
                     << <<"I","n","d","e","x"," ","1",".","6">>,
                        <<"c","o","a","t","i","n","g">> >>,
                     << <<"O","C","-","1","2">> >> }
    IN {[pc |-> "idle", headers |-> h, sampleRows |-> r] :
          h \in UNION { [1..n -> headerPool] : n \in 0..MaxDetectHeaders },
          r \in UNION { [1..n -> rowPool] : n \in 0..MaxSampleRows }}

InitDetector ==
    /\ detector \in DetectorInputs
    /\ engine = "BatchAIEnhancer"
    /\ apiKey = FALSE
    /\ rows = <<>>
    /\ EnhancerIdle
    /\ OthersIdle({"detector"})

Detect ==
    /\ detector.pc = "idle"
    /\ detector' = [pc |-> "detected", headers |-> detector.headers,
                    sampleRows |-> detector.sampleRows,
                    result |-> detect(detector.headers, detector.sampleRows)]
    /\ UNCHANGED <<enhancerVars, mapper, transformer, cleaner, reader>>

SpecDetector == InitDetector /\ [][Detect]_vars

(* C14: the confidence detect returns is 0 exactly when the scores of all
   record types sum to 0, and in exactly that case the type is UNKNOWN. *)
C14_ZeroConfidenceIffNoScore ==
    detector.pc = "detected" =>
        LET res == detector.result
        IN /\ res.confidence = 0 <=> Sum(res.allScores) = 0
           /\ res.productType = "UNKNOWN" <=> Sum(res.allScores) = 0

C14_Witness ==
    /\ detector.pc = "detected"
    /\ Len(detector.headers) > 0
    /\ Len(detector.sampleRows) > 0
    /\ detector.result.confidence = 0

(* C23: the score detect gives a record type is 2 for every distinct
   keyword of the type found in the lowercased header text plus 1 for every
   distinct keyword found in the values of some sample row and not counted
   for the headers. *)
C23_ScoreOfDistinctKeywords ==
    detector.pc = "detected" =>
        \A t \in 1..Len(KEYWORDS) :
            LET headerText == toLowerCase(join(detector.headers, <<" ">>))
                inHeaders == Range(Found(KEYWORDS[t].keywords, headerText))
                inRows == UNION { Range(Found(KEYWORDS[t].keywords,
                                              toLowerCase(join(detector.sampleRows[r], <<" ">>)))) :
                                  r \in 1..Len(detector.sampleRows) }
            IN detector.result.allScores[t]
                  = 2 * Cardinality(inHeaders) + Cardinality(inRows \ inHeaders)

MaxScore == 6

\* the score vectors of the four record types, up to MaxScore each
ScoreVectors == [1..Len(KEYWORDS) -> 0..MaxScore]

BestScore(allScores) ==
    allScores[CHOOSE i \in 1..Len(allScores) : \A j \in 1..Len(allScores) :
                  allScores[j] <= allScores[i]]

\* the confidence detect reports for a score vector
ConfidenceOf(allScores) ==
    LET confidence == _calculateRelativeConfidence(allScores,
                                                   [score |-> BestScore(allScores)])
    IN Round(confidence.num, confidence.den)

(* C15: with the total score held fixed, the confidence never decreases
   when the best score grows: a score vector with the same total as the
   detected one and a best score at least as large gets at least the
   detected confidence. *)
C15_MonotoneInBestScore ==
    detector.pc = "detected" =>
        \A v \in ScoreVectors :
            (/\ Sum(v) = Sum(detector.result.allScores)
             /\ BestScore(v) >= BestScore(detector.result.allScores))
            => ConfidenceOf(v) >= detector.result.confidence

-----------------------------------------------------------------------------
(* Header normalization: the reader normalizes every header of the file,   *)
(* and the mapper normalizes the reader's headers again before matching.    *)

\* CsvReader._normalizeHeader(header), one replace after the other
_normalizeHeader(header) ==
    LET lower   == toLowerCase(header)
        noSpace == SelectSeq(lower, LAMBDA c : c \notin {" ", "\t"})
        noSep   == SelectSeq(noSpace, LAMBDA c : c \notin {"_", "-"})
    IN SelectSeq(noSep, LAMBDA c :
           c \in Range(LowerChars) \cup Range(UpperChars) \cup Digits \cup {"_"})

MaxHeaderLen == 3

ReaderInputs ==
    LET alphabet == {"F", "e", "1", " ", "\t", "_", "-", ".", "é"}
    IN {[pc |-> "idle", header |-> h] :
          h \in UNION { [1..n -> alphabet] : n \in 0..MaxHeaderLen }}

InitReader ==
    /\ reader \in ReaderInputs
    /\ engine = "BatchAIEnhancer"
    /\ apiKey = FALSE
    /\ rows = <<>>
    /\ EnhancerIdle
    /\ OthersIdle({"reader"})

\* the raw header is normalized, by the reader and by the mapper
NormalizeHeader ==
    /\ reader.pc = "idle"
    /\ reader' = [pc |-> "normalized", header |-> reader.header,
                  byReader |-> _normalizeHeader(reader.header),
                  byMapper |-> _normalizeForMatching(reader.header)]
    /\ UNCHANGED <<enhancerVars, mapper, transformer, cleaner, detector>>

\* the normalized header is normalized again
NormalizeAgain ==
    /\ reader.pc = "normalized"
    /\ reader' = [pc |-> "renormalized", header |-> reader.header,
                  byReader |-> _normalizeHeader(reader.byReader),
                  byMapper |-> _normalizeForMatching(reader.byMapper),
                  before |-> [byReader |-> reader.byReader, byMapper |-> reader.byMapper]]
    /\ UNCHANGED <<enhancerVars, mapper, transformer, cleaner, detector>>

NextReader == NormalizeHeader \/ NormalizeAgain

SpecReader == InitReader /\ [][NextReader]_vars

(* C16: header normalization is idempotent: normalizing a normalized header
   returns it unchanged, for the reader's _normalizeHeader and for the
   mapper's _normalizeForMatching. *)
C16_NormalizationIdempotent ==
    reader.pc = "renormalized" =>
        /\ reader.byReader = reader.before.byReader
        /\ reader.byMapper = reader.before.byMapper

C16_Witness ==
    /\ reader.pc = "renormalized"
    /\ Len(reader.header) = 3
    /\ Len(reader.byReader) = 1
    /\ reader.byMapper = <<"f">>

=============================================================================
